---- MODULE Spec2Model ----
(***************************************************************************)
(* A model of the publish pipeline of surge-sdk (src/src/stream.rs) and of *)
(* the event classifier (src/src/types.rs).                                *)
(*                                                                         *)
(*   - the project tree and the .surgeignore matcher                       *)
(*   - calculate_metadata: the parallel walk, the channel, the aggregation *)
(*   - TarGzStream: the archive task, the duplex pipe, poll_next           *)
(*   - RawEvent -> Event classification                                    *)
(*   - publish / publish_wip: the request, the response's event sequence   *)
(*   - SurgeSdk::login (src/src/sdk.rs), json_to_argv (src/src/utils.rs)   *)
(***************************************************************************)
EXTENDS Integers, Sequences, FiniteSets, TLC

VARIABLES
    tree,          \* the project directory: path -> node
    rules,         \* the lines of .surgeignore, in file order
    spc,           \* calculate_metadata: "idle" | "start" | "walk" | "aggregate" | "done" | "failed"
    scan_err,      \* the error calculate_metadata returned
    pending,       \* walker work items not yet visited (set of paths)
    chan,          \* the mpsc channel tx -> rx (sequence of paths)
    file_count,    \* calculate_metadata's local
    project_size,  \* calculate_metadata's local
    counted,       \* the paths the aggregation loop counted (observation)
    tpc,           \* archive task: "idle" | "walk" | "finish" | "write" | "shutdown" | "done"
    tstack,        \* the sequential walker's stack of directory iterators
    entries,       \* the tar entries appended so far (set of records)
    tresult,       \* the task's result: "none" | "ok" | "err" | "panic"
    dataLen,       \* length of the finished gzip buffer
    nwritten,      \* bytes of the buffer already written into the pipe
    buffered,      \* bytes held by the pipe
    consumed,      \* bytes already read out of the pipe: the buffer's front
    is_closed,     \* the pipe's closed flag
    write_waker,   \* the writer is parked on the pipe
    taskSome,      \* TarGzStream.task is Some
    done,          \* TarGzStream.done
    readerSome,    \* ReaderStream still holds its reader
    rcap,          \* spare capacity of ReaderStream's buffer
    cstate,        \* the consumer: "idle" | "ready" | "parkedTask" | "parkedPipe" | "finished" | "dropped"
    yielded,       \* the items poll_next returned Ready, in order
    epc,           \* event pipeline: "idle" | "line" | "raw" | "event" | "jsonerr"
    record,        \* one decoded NDJSON line (a JSON object)
    raw,           \* the RawEvent
    event,         \* the Event
    resp,          \* the upload response: its status and the lines of its body
    dpc,           \* publish after send: "idle" | "sent" | "stream" | "ended" | "failed"
    publishErr,    \* the error publish returned instead of an event sequence
    rpos,          \* units of the body the byte stream has delivered
    in_queue,      \* NDJSON engine: the bytes of the unfinished line
    out_queue,     \* NDJSON engine: parsed lines not yet popped
    items,         \* the items the event sequence yielded, in order
    call,          \* the arguments of the publish / publish_wip call, and its clock
    req,           \* the request the call sent (<<>>: none)
    first,         \* what an earlier calculate_metadata on the tree returned (<<>>: none)
    lres,          \* login: the response the server gave (<<>>: no call)
    lret,          \* login: what the call returned (<<>>: not yet)
    jin,           \* json_to_argv: its argument (<<>>: no call)
    jout           \* json_to_argv: its outcome (<<>>: not yet)

fsVars     == <<tree, rules>>
scanVars   ==
    <<spc, scan_err, pending, chan, file_count, project_size, counted>>
taskVars   == <<tpc, tstack, entries, tresult, dataLen, nwritten>>
pipeVars   == <<buffered, consumed, is_closed, write_waker>>
streamVars == <<taskSome, done, readerSome, rcap, cstate, yielded>>
eventVars  == <<epc, record, raw, event>>
respVars   == <<resp, dpc, publishErr, rpos, in_queue, out_queue, items>>
sdkVars    == <<lres, lret, jin, jout>>
callVars   == <<call, req, first, sdkVars>>
vars ==
    <<fsVars, scanVars, taskVars, pipeVars, streamVars, eventVars, respVars,
      callVars>>

-----------------------------------------------------------------------------
(* Bounds of the model *)

\* longest .surgeignore, in lines
MaxRules == 2
\* size of the one large file a project may hold
BigSize == 20000

-----------------------------------------------------------------------------
(* The project tree *)

Root == <<>>
\* the project directory's own name (project_path.file_name())
dir_name == "proj"

AllPaths ==
    { Root, <<"a.txt">>, <<"b.txt">>, <<".surgeignore">>, <<"link">>,
      <<"sub">>, <<"sub", "a.txt">> }

\* the target of the symbolic link "link"
LinkTarget == <<"a.txt">>

\* readable: the file can be opened, the directory can be listed.
\* stat: what a stat of the path gives: "ok", "fails" (the directory above
\* it cannot be searched), or "flaky" (the file may go away at any moment, so
\* each call succeeds or fails on its own).
NoNode == [kind |-> "none", size |-> 0, readable |-> FALSE, stat |-> "fails"]
FileNode(n, r) == [kind |-> "file", size |-> n, readable |-> r, stat |-> "ok"]
DirNode == [kind |-> "dir", size |-> 0, readable |-> TRUE, stat |-> "ok"]
LinkNode == [kind |-> "symlink", size |-> 0, readable |-> TRUE, stat |-> "ok"]

Parent(p) == SubSeq(p, 1, Len(p) - 1)
Children(t, p) ==
    { q \in AllPaths : q # Root /\ Parent(q) = p /\ t[q].kind # "none" }

\* fs::metadata / Path::is_file / Path::is_dir / File::open follow symbolic links
Resolve(t, p) == IF t[p].kind = "symlink" THEN LinkTarget ELSE p

\* the outcomes one stat of the path can have: TRUE is success
StatOutcomes(t, p) ==
    CASE t[Resolve(t, p)].stat = "ok" -> {TRUE}
      [] t[Resolve(t, p)].stat = "fails" -> {FALSE}
      [] t[Resolve(t, p)].stat = "flaky" -> BOOLEAN

\* Path::is_file: fs::metadata(path).map(|m| m.is_file()).unwrap_or(false),
\* given whether its stat succeeded
is_file(t, p, ok) == ok /\ t[Resolve(t, p)].kind = "file"
\* only files have a stat that can fail in the model
is_dir(t, p) == t[Resolve(t, p)].kind = "dir"
metadata_len(t, p) == t[Resolve(t, p)].size

\* the permission bits and the modification time (seconds since the epoch)
\* the model's files have: b.txt is 0o755, sub/a.txt is 0o600, the others
\* are 0o644
FileMode(p) ==
    CASE p = <<"b.txt">> -> 493
      [] p = <<"sub", "a.txt">> -> 384
      [] OTHER -> 420
FileMtime(p) ==
    CASE p = <<"b.txt">> -> 2
      [] p = <<"sub", "a.txt">> -> 3
      [] OTHER -> 1
\* metadata.permissions().mode() & 0o777 and metadata.modified()
permissions_mode(t, p) == FileMode(Resolve(t, p))
modified_secs(t, p) == FileMtime(Resolve(t, p))
CanOpen(t, p) == t[Resolve(t, p)].readable

-----------------------------------------------------------------------------
(* The .surgeignore matcher (ignore::gitignore) *)

\* One line of .surgeignore: "name", "name/" (dirOnly) or "!name" (neg).
\* A pattern without an inner slash matches the name at any depth.
RuleAlphabet ==
    { [neg |-> FALSE, dirOnly |-> FALSE, name |-> "b.txt"],
      [neg |-> FALSE, dirOnly |-> FALSE, name |-> "a.txt"],
      [neg |-> TRUE,  dirOnly |-> FALSE, name |-> "a.txt"],
      [neg |-> FALSE, dirOnly |-> TRUE,  name |-> "sub"],
      [neg |-> FALSE, dirOnly |-> FALSE, name |-> "["],
      [neg |-> FALSE, dirOnly |-> FALSE, name |-> "x["] }

\* GlobBuilder::build fails on the line: "[" opens a class it never closes
Malformed(r) == r.name \in {"[", "x["}

RuleLists == UNION { [1..n -> RuleAlphabet] : n \in 0..MaxRules }

NameLen(n) == CASE n = "sub" -> 3 [] n = "[" -> 1 [] n = "x[" -> 2 [] OTHER -> 5

\* bytes of one line: the name, a leading "!" and a trailing "/"
LineLen(r) ==
    NameLen(r.name) + (IF r.neg THEN 1 ELSE 0) + (IF r.dirOnly THEN 1 ELSE 0)

RECURSIVE SumLineLen(_)
SumLineLen(rs) ==
    IF rs = <<>> THEN 0 ELSE LineLen(Head(rs)) + SumLineLen(Tail(rs))

\* bytes of the rules file: its lines joined by newlines
IgnoreFileLen(rs) ==
    IF rs = <<>> THEN 0 ELSE SumLineLen(rs) + (Len(rs) - 1)

NoError == [kind |-> "none", glob |-> ""]

\* a builder that leaves a line it cannot compile out of the matcher
GitignoreErrorSkipped(t, rs) == NoError

\* build_custom_gitignore, the error: add_line(None, line)? returns at the
\* first line that does not compile, with ignore::Error::Glob { glob: line }
\* wrapped as SurgeError::IgnoreError
GitignoreError(t, rs) ==
    LET bad == { i \in 1..Len(rs) : Malformed(rs[i]) }
    IN  IF t[<<".surgeignore">>].kind = "none" \/ bad = {} THEN NoError
        ELSE [kind |-> "Ignore",
              glob |-> rs[CHOOSE i \in bad : \A j \in bad : i <= j].name]

\* build_custom_gitignore, the matcher: it holds the file's lines, or
\* nothing when the project has no .surgeignore
build_custom_gitignore(t, rs) ==
    IF t[<<".surgeignore">>].kind = "none" THEN <<>> ELSE rs

GlobMatches(r, p) == p # Root /\ ~Malformed(r) /\ p[Len(p)] = r.name

SetMax(S) == CHOOSE x \in S : \A y \in S : y <= x

\* Gitignore::matched_stripped: the last matching glob decides
matched_stripped(m, p, isDir) ==
    LET hits == { i \in 1..Len(m) :
                    GlobMatches(m[i], p) /\ (m[i].dirOnly => isDir) }
    IN  IF hits = {} THEN "None"
        ELSE IF m[SetMax(hits)].neg THEN "Whitelist" ELSE "Ignore"

\* Gitignore::matched_path_or_any_parents: the path itself, then each parent
\* up to the root; the first answer that is not None is returned
RECURSIVE matched_parents(_, _)
matched_parents(m, p) ==
    IF p = Root THEN "None"
    ELSE LET a == matched_stripped(m, Parent(p), TRUE)
         IN  IF a # "None" THEN a ELSE matched_parents(m, Parent(p))

matched_path_or_any_parents(m, p, isDir) ==
    IF m = <<>> THEN "None"
    ELSE LET a == matched_stripped(m, p, isDir)
         IN  IF a # "None" THEN a ELSE matched_parents(m, p)

\* the test both walks apply to an entry
is_ignored(t, m, p) ==
    matched_path_or_any_parents(m, p, is_dir(t, p)) = "Ignore"

-----------------------------------------------------------------------------
(* The projects the model starts from *)

MkTree(aSize, bKind, subKind, hasLink, hasIgnore, rs) ==
    [ p \in AllPaths |->
        CASE p = Root -> DirNode
          [] p = <<"a.txt">> ->
                IF aSize = 0 THEN NoNode ELSE FileNode(aSize, TRUE)
          [] p = <<"b.txt">> ->
                CASE bKind = "none" -> NoNode
                  [] bKind = "flaky" ->
                        [FileNode(3, TRUE) EXCEPT !.stat = "flaky"]
                  [] OTHER -> FileNode(3, bKind = "ok")
          [] p = <<".surgeignore">> ->
                IF hasIgnore THEN FileNode(IgnoreFileLen(rs), TRUE) ELSE NoNode
          [] p = <<"link">> -> IF hasLink THEN LinkNode ELSE NoNode
          [] p = <<"sub">> ->
                CASE subKind = "none" -> NoNode
                  [] subKind = "noRead" -> [DirNode EXCEPT !.readable = FALSE]
                  [] OTHER -> DirNode
          [] p = <<"sub", "a.txt">> ->
                CASE subKind = "withA" -> FileNode(4, TRUE)
                  [] subKind = "noSearch" ->
                        [FileNode(4, TRUE) EXCEPT !.stat = "fails"]
                  [] OTHER -> NoNode ]

InitFs ==
    \E aSize \in {0, 2, BigSize},
       bKind \in {"none", "ok", "unreadable", "flaky"},
       subKind \in {"none", "empty", "withA", "noSearch", "noRead"},
       hasLink \in BOOLEAN,
       hasIgnore \in BOOLEAN :
      \E rs \in (IF hasIgnore THEN RuleLists ELSE {<<>>}) :
        /\ tree = MkTree(aSize, bKind, subKind, hasLink, hasIgnore, rs)
        /\ rules = rs

-----------------------------------------------------------------------------
(* calculate_metadata *)

\* a callback whose channel takes two entries and drops the rest
WalkerCallbackBounded(t, m, ch, p) ==
    IF ~is_ignored(t, m, p) /\ Len(ch) < 2 THEN Append(ch, p) ELSE ch

\* The walker callback: a non-ignored entry is sent down the channel.
WalkerCallback(t, m, ch, p) ==
    IF ~is_ignored(t, m, p) THEN Append(ch, p) ELSE ch

\* What a visited entry adds to the work: the walker does not follow links,
\* so only a real directory is read.
WalkerChildren(t, p) ==
    IF t[p].kind = "dir" /\ t[p].readable THEN Children(t, p) ELSE {}

\* SurgeError::Io(io::Error::new(ErrorKind::NotFound, "Invalid project directory"))
InvalidProjectDirectory ==
    [kind |-> "Io", glob |-> "", io |-> "NotFound",
     msg |-> "Invalid project directory"]

\* a check that takes every path for a directory
DirCheckSkipped(t) == NoError

\* if !project_path.is_dir() { return Err(..) }
DirCheck(t) == IF is_dir(t, Root) THEN NoError ELSE InvalidProjectDirectory

\* the directory check, let gitignore = build_custom_gitignore(project_path)?;
\* then the walker is built and run
ScanStart ==
    /\ spc = "start"
    /\ LET d == DirCheck(tree)
           e == IF d.kind # "none" THEN d ELSE GitignoreError(tree, rules)
       IN  IF e.kind # "none"
           THEN spc' = "failed" /\ scan_err' = e /\ UNCHANGED pending
           ELSE spc' = "walk" /\ pending' = {Root} /\ UNCHANGED scan_err
    /\ UNCHANGED <<fsVars, chan, file_count, project_size, counted>>
    /\ UNCHANGED <<taskVars, pipeVars, streamVars, eventVars, respVars>>
    /\ UNCHANGED callVars

\* an aggregation loop that counts every entry it receives
AggregateEntryCountsAll(t, acc, p, s1, s2) ==
    [file_count   |-> acc.file_count + 1,
     project_size |-> acc.project_size + metadata_len(t, p),
     counted      |-> acc.counted \cup {p},
     failed       |-> FALSE]

\* One pass of the aggregation loop over a received entry: is_file() and
\* fs::metadata(path)? each stat the path (s1, s2: whether they succeeded).
AggregateEntry(t, acc, p, s1, s2) ==
    IF ~is_file(t, p, s1) THEN acc
    ELSE IF ~s2 THEN [acc EXCEPT !.failed = TRUE]
    ELSE [file_count   |-> acc.file_count + 1,
          project_size |-> acc.project_size + metadata_len(t, p),
          counted      |-> acc.counted \cup {p},
          failed       |-> FALSE]

\* Some worker takes a work item and runs the callback on it; the order in
\* which items are taken is free. walker.run returns when no work is left.
WalkerVisit ==
    /\ spc = "walk"
    /\ \E p \in pending :
         LET m == build_custom_gitignore(tree, rules)
             rest == (pending \ {p}) \cup WalkerChildren(tree, p)
         IN  /\ chan' = WalkerCallback(tree, m, chan, p)
             /\ pending' = rest
             /\ spc' = IF rest = {} THEN "aggregate" ELSE "walk"
    /\ UNCHANGED <<fsVars, scan_err, file_count, project_size, counted>>
    /\ UNCHANGED <<taskVars, pipeVars, streamVars, eventVars, respVars>>
    /\ UNCHANGED callVars

\* for entry in rx { ... }: one entry; a metadata error returns from
\* calculate_metadata with SurgeError::Io
Aggregate ==
    /\ spc = "aggregate"
    /\ chan # <<>>
    /\ \E s1, s2 \in StatOutcomes(tree, Head(chan)) :
         LET acc == AggregateEntry(tree,
                      [file_count |-> file_count, project_size |-> project_size,
                       counted |-> counted, failed |-> FALSE], Head(chan), s1, s2)
         IN  /\ file_count' = acc.file_count
             /\ project_size' = acc.project_size
             /\ counted' = acc.counted
             /\ spc' = IF acc.failed THEN "failed" ELSE spc
             /\ scan_err' = IF acc.failed
                            THEN [kind |-> "Io", glob |-> ""] ELSE scan_err
    /\ chan' = Tail(chan)
    /\ UNCHANGED <<fsVars, pending>>
    /\ UNCHANGED <<taskVars, pipeVars, streamVars, eventVars, respVars>>
    /\ UNCHANGED callVars

\* Ok(StreamMetadata { file_count, project_size })
ScanReturn ==
    /\ spc = "aggregate"
    /\ chan = <<>>
    /\ spc' = "done"
    /\ UNCHANGED <<fsVars, scan_err, pending, chan>>
    /\ UNCHANGED <<file_count, project_size, counted>>
    /\ UNCHANGED <<taskVars, pipeVars, streamVars, eventVars, respVars>>
    /\ UNCHANGED callVars

-----------------------------------------------------------------------------
(* TarGzStream::new: the archive task *)

\* tokio::io::duplex(chunk_size), with publish's chunk_size
PipeCapacity == 8192
\* ReaderStream::new: the default capacity of its buffer
ReaderCapacity == 4096
\* a tar header, and the unit file contents are padded to
TarBlock == 512
\* gzip frame: 10 bytes of header, 8 bytes of trailer
GzFrame == 18
\* deflate can always fall back to stored blocks: 5 bytes per 65535
StoredBlockHeader == 5
StoredBlockMax == 65535

Min(a, b) == IF a <= b THEN a ELSE b

\* PathBuf::from(&dir_name).join(file_name), file_name = rel_path.file_name()
tar_path(p) == <<dir_name, p[Len(p)]>>

\* header.set_mode(0o644)
HeaderMode == 420

\* header.set_size(metadata.len()); header.set_mode(0o644);
\* header.set_mtime(seconds of metadata.modified());
\* tar.append_data(&mut header, &tar_path, &mut file)
TarEntry(t, p) ==
    [path |-> tar_path(p), size |-> metadata_len(t, p), mode |-> HeaderMode,
     mtime |-> modified_secs(t, p), src |-> p]

\* a walk loop that archives the files the rules exclude as well
WalkEntryKeepsIgnored(t, m, p, o) ==
    IF t[p].kind = "dir" /\ ~t[p].readable THEN "fail"
    ELSE IF ~is_file(t, p, o[1]) \/ ~is_file(t, p, o[2]) THEN "skip"
    ELSE IF ~o[3] \/ ~CanOpen(t, p) THEN "fail"
    ELSE "append"

\* What the walk loop does with one entry: "skip", "fail" or "append".
\* o holds the outcomes of its three stats: the two is_file() tests and
\* fs::metadata(path)?. A directory that cannot be listed is followed by the
\* walker's error for it, which entry.map_err(..)? returns.
WalkEntry(t, m, p, o) ==
    IF t[p].kind = "dir" /\ ~t[p].readable THEN "fail"
    ELSE IF is_ignored(t, m, p) \/ ~is_file(t, p, o[1]) THEN "skip"
    ELSE IF ~is_file(t, p, o[2]) THEN "skip"
    ELSE IF ~o[3] THEN "fail"
    ELSE IF ~CanOpen(t, p) THEN "fail"
    ELSE "append"

RECURSIVE SumPadded(_)
SumPadded(E) ==
    IF E = {} THEN 0
    ELSE LET e == CHOOSE x \in E : TRUE
         IN  TarBlock + ((e.size + TarBlock - 1) \div TarBlock) * TarBlock
               + SumPadded(E \ {e})

\* the uncompressed tar stream: the entries and two closing blocks
TarLen(E) == SumPadded(E) + 2 * TarBlock

GzMaxLen(n) == n + GzFrame + StoredBlockHeader * (n \div StoredBlockMax + 1)

\* encoder.finish(): the compressed length depends on the file contents,
\* which the model does not hold; it is one of these, never more than the
\* stored form of the tar stream.
ArchiveLens(E) ==
    { l \in { GzFrame + 2, PipeCapacity - 1, PipeCapacity, PipeCapacity + 1,
              2 * PipeCapacity + 1 } : l <= GzMaxLen(TarLen(E)) }

\* drop the exhausted directory iterators from the top of the walker's stack
RECURSIVE Normalize(_)
Normalize(st) ==
    IF st # <<>> /\ st[Len(st)] = {} THEN Normalize(SubSeq(st, 1, Len(st) - 1))
    ELSE st

\* the consumer is woken by whichever waker it registered
Wake(c, what) == IF c = what THEN "ready" ELSE c

\* The task returns: its writer half is dropped, which closes the pipe, and
\* the JoinHandle's waker is woken.
TaskEnds(res) ==
    /\ tpc' = "done"
    /\ tresult' = res
    /\ is_closed' = TRUE
    /\ write_waker' = FALSE
    /\ cstate' = Wake(Wake(cstate, "parkedTask"), "parkedPipe")

\* for entry in walker { ... }: one entry of the depth-first walk; the order
\* of a directory's entries is the file system's.
TaskWalk ==
    /\ tpc = "walk"
    /\ tstack # <<>>
    /\ \E p \in tstack[Len(tstack)] :
       \E o \in StatOutcomes(tree, p) \X StatOutcomes(tree, p)
                 \X StatOutcomes(tree, p) :
         LET m == build_custom_gitignore(tree, rules)
             top == tstack[Len(tstack)] \ {p}
             st == [tstack EXCEPT ![Len(tstack)] = top]
             pushed == IF tree[p].kind = "dir"
                       THEN Append(st, Children(tree, p)) ELSE st
             what == WalkEntry(tree, m, p, o)
         IN  IF what = "fail"
             THEN /\ TaskEnds("err")
                  /\ UNCHANGED <<tstack, entries, dataLen, nwritten>>
                  /\ UNCHANGED <<buffered, consumed>>
             ELSE /\ tstack' = Normalize(pushed)
                  /\ entries' = IF what = "append"
                                THEN entries \cup {TarEntry(tree, p)}
                                ELSE entries
                  /\ UNCHANGED <<tpc, tresult, dataLen, nwritten, pipeVars, cstate>>
    /\ UNCHANGED <<fsVars, scanVars, taskSome, done, readerSome, rcap, yielded>>
    /\ UNCHANGED <<eventVars, respVars>>
    /\ UNCHANGED callVars

\* tar.finish()?; encoder.finish()?
TaskFinish ==
    /\ tpc = "walk"
    /\ tstack = <<>>
    /\ \E l \in ArchiveLens(entries) : dataLen' = l
    /\ tpc' = "write"
    /\ UNCHANGED <<fsVars, scanVars, tstack, entries, tresult, nwritten>>
    /\ UNCHANGED <<pipeVars, streamVars, eventVars, respVars>>
    /\ UNCHANGED callVars

\* a pipe whose poll_write takes a full buffer's worth whatever it holds
WriteRoomIgnoresBuffered(b) == PipeCapacity

\* the room poll_write finds in the pipe: max_buf_size - buffer.len()
WriteRoom(b) == PipeCapacity - b

\* the bytes of the finished archive the task holds in `data`, from
\* encoder.finish() until the task returns
TaskData == IF tpc \in {"write", "shutdown"} THEN dataLen ELSE 0

\* writer.write_all(&data): one poll_write of the pipe.
\* Closed: BrokenPipe. Full: park on the write waker. Else copy what fits
\* and wake the reader.
TaskWrite ==
    /\ tpc = "write"
    /\ ~write_waker
    /\ IF is_closed
       THEN /\ TaskEnds("err")
            /\ UNCHANGED <<buffered, nwritten>>
       ELSE IF WriteRoom(buffered) = 0
       THEN /\ write_waker' = TRUE
            /\ UNCHANGED <<tpc, tresult, is_closed, cstate, buffered, nwritten>>
       ELSE LET n == Min(WriteRoom(buffered), dataLen - nwritten)
            IN  /\ buffered' = buffered + n
                /\ nwritten' = nwritten + n
                /\ cstate' = Wake(cstate, "parkedPipe")
                /\ tpc' = IF nwritten + n = dataLen THEN "shutdown" ELSE "write"
                /\ UNCHANGED <<tresult, is_closed, write_waker>>
    /\ UNCHANGED <<fsVars, scanVars, tstack, entries, dataLen, consumed>>
    /\ UNCHANGED <<taskSome, done, readerSome, rcap, yielded, eventVars, respVars>>
    /\ UNCHANGED callVars

\* writer.shutdown().await?; Ok(())
TaskShutdown ==
    /\ tpc = "shutdown"
    /\ TaskEnds("ok")
    /\ UNCHANGED <<fsVars, scanVars, tstack, entries, dataLen, nwritten>>
    /\ UNCHANGED <<buffered, consumed>>
    /\ UNCHANGED <<taskSome, done, readerSome, rcap, yielded, eventVars, respVars>>
    /\ UNCHANGED callVars

\* The task ends without returning: it panics, or the runtime cancels it.
\* Its future is dropped, and with it the writer half of the pipe; the
\* JoinHandle resolves to Err(JoinError).
TaskPanic ==
    /\ tpc \in {"walk", "write", "shutdown"}
    /\ TaskEnds("panic")
    /\ UNCHANGED <<fsVars, scanVars, tstack, entries, dataLen, nwritten>>
    /\ UNCHANGED <<buffered, consumed>>
    /\ UNCHANGED <<taskSome, done, readerSome, rcap, yielded, eventVars, respVars>>
    /\ UNCHANGED callVars

-----------------------------------------------------------------------------
(* impl Stream for TarGzStream *)

\* an item of the stream; a chunk holds the n bytes of the archive that
\* start at byte `from`
Item(k, n) == [k |-> k, n |-> n, from |-> 0]
ChunkItem(from, n) == [k |-> "chunk", n |-> n, from |-> from]

\* the state poll_next reads and writes
StreamState ==
    [taskSome |-> taskSome, done |-> done, readerSome |-> readerSome,
     rcap |-> rcap, buffered |-> buffered, consumed |-> consumed,
     is_closed |-> is_closed]

Ret(s, it) == [s |-> s, item |-> it]

\* Pin::new(task).poll(cx)
JoinPoll == IF tpc = "done" THEN tresult ELSE "pending"

\* a poll_next that ends the stream on a failed task without yielding the error
OnTaskErrSwallowed(s) ==
    Ret([s EXCEPT !.taskSome = FALSE, !.done = TRUE], Item("eos", 0))

\* Ok(Err(e)) => { self.task = None; self.done = true; Ready(Some(Err(e))) }
OnTaskErr(s) ==
    Ret([s EXCEPT !.taskSome = FALSE, !.done = TRUE], Item("err", 0))

\* a JoinError arm that ends the stream without an item for the panic
OnJoinErrEndsStream(s) ==
    Ret([s EXCEPT !.taskSome = FALSE, !.done = TRUE], Item("eos", 0))

\* Err(e) => { self.task = None; self.done = true;
\*             Ready(Some(Err(SurgeError::Io(io::Error::other(e.to_string()))))) }
OnJoinErr(s) ==
    Ret([s EXCEPT !.taskSome = FALSE, !.done = TRUE], Item("err", 0))

\* a read that copies the bytes out but leaves them in the pipe
PollReaderNoAdvance(s) ==
    IF s.buffered > 0
    THEN Ret(s, ChunkItem(s.consumed, Min(s.buffered, ReaderCapacity)))
    ELSE Ret([s EXCEPT !.readerSome = FALSE, !.done = TRUE], Item("eos", 0))

\* ReaderStream::poll_next over the pipe's read half, and the match on it
PollReader(s) ==
    IF ~s.readerSome
    THEN Ret([s EXCEPT !.done = TRUE], Item("eos", 0))
    ELSE LET cap == IF s.rcap = 0 THEN ReaderCapacity ELSE s.rcap
         IN  IF s.buffered > 0
             THEN LET n == Min(s.buffered, cap)
                  IN  Ret([s EXCEPT !.buffered = s.buffered - n,
                                    !.consumed = s.consumed + n,
                                    !.rcap = cap - n],
                          ChunkItem(s.consumed, n))
             ELSE IF s.is_closed
             THEN Ret([s EXCEPT !.readerSome = FALSE, !.rcap = cap,
                                !.done = TRUE],
                      Item("eos", 0))
             ELSE Ret([s EXCEPT !.rcap = cap], Item("pendingPipe", 0))

\* a poll_next without the test of self.done
poll_next_ignores_done(s, jp) ==
    IF s.taskSome /\ jp = "pending" THEN Ret(s, Item("pendingTask", 0))
    ELSE IF s.taskSome /\ jp = "err" THEN OnTaskErr(s)
    ELSE IF s.taskSome /\ jp = "panic" THEN OnJoinErr(s)
    ELSE PollReader([s EXCEPT !.taskSome = FALSE])

\* TarGzStream::poll_next
poll_next(s, jp) ==
    IF s.done THEN Ret(s, Item("eos", 0))
    ELSE IF s.taskSome /\ jp = "pending" THEN Ret(s, Item("pendingTask", 0))
    ELSE IF s.taskSome /\ jp = "err" THEN OnTaskErr(s)
    ELSE IF s.taskSome /\ jp = "panic" THEN OnJoinErr(s)
    ELSE PollReader([s EXCEPT !.taskSome = FALSE])

\* The body's consumer polls the stream whenever it is runnable.
PollNext ==
    /\ cstate = "ready"
    /\ LET r == poll_next(StreamState, JoinPoll)
           k == r.item.k
       IN  /\ taskSome' = r.s.taskSome
           /\ done' = r.s.done
           /\ readerSome' = r.s.readerSome
           /\ rcap' = r.s.rcap
           /\ buffered' = r.s.buffered
           /\ consumed' = r.s.consumed
           /\ write_waker' = IF k = "chunk" THEN FALSE ELSE write_waker
           /\ cstate' = CASE k = "pendingTask" -> "parkedTask"
                          [] k = "pendingPipe" -> "parkedPipe"
                          [] k = "eos" -> "finished"
                          [] OTHER -> "ready"
           /\ yielded' = IF k \in {"chunk", "err", "eos"}
                         THEN Append(yielded, r.item) ELSE yielded
    /\ UNCHANGED <<fsVars, scanVars, taskVars, is_closed, eventVars, respVars>>
    /\ UNCHANGED callVars

\* most polls a consumer makes after it was handed end-of-stream
MaxRepolls == 2

EndsSeen == Cardinality({ j \in 1..Len(yielded) : yielded[j].k = "eos" })

\* A consumer that polls the stream again after it was handed end-of-stream.
PollAfterEnd ==
    /\ cstate = "finished"
    /\ EndsSeen <= MaxRepolls
    /\ LET r == poll_next(StreamState, JoinPoll)
           k == r.item.k
       IN  /\ taskSome' = r.s.taskSome
           /\ done' = r.s.done
           /\ readerSome' = r.s.readerSome
           /\ rcap' = r.s.rcap
           /\ buffered' = r.s.buffered
           /\ consumed' = r.s.consumed
           /\ write_waker' = IF k = "chunk" THEN FALSE ELSE write_waker
           /\ cstate' = CASE k = "pendingTask" -> "parkedTask"
                          [] k = "pendingPipe" -> "parkedPipe"
                          [] k = "eos" -> "finished"
                          [] OTHER -> "ready"
           /\ yielded' = IF k \in {"chunk", "err", "eos"}
                         THEN Append(yielded, r.item) ELSE yielded
    /\ UNCHANGED <<fsVars, scanVars, taskVars, is_closed, eventVars, respVars>>
    /\ UNCHANGED callVars

\* a drop that leaves the pipe open and the writer parked
DropReaderLeaks == [is_closed |-> is_closed, write_waker |-> write_waker]

\* What dropping the TarGzStream does to the pipe: the read half closes it
\* and wakes a parked writer. The JoinHandle's drop detaches the task.
DropReader == [is_closed |-> TRUE, write_waker |-> FALSE]

\* The consumer goes away before the stream is exhausted (the body is
\* dropped: send failed, the timeout expired, the caller gave up).
DropStream ==
    /\ cstate \in {"ready", "parkedTask", "parkedPipe"}
    /\ cstate' = "dropped"
    /\ is_closed' = DropReader.is_closed
    /\ write_waker' = DropReader.write_waker
    /\ UNCHANGED <<fsVars, scanVars, taskVars, eventVars, respVars>>
    /\ UNCHANGED <<buffered, consumed>>
    /\ UNCHANGED <<taskSome, done, readerSome, rcap, yielded>>
    /\ UNCHANGED callVars

-----------------------------------------------------------------------------
(* JSON values (serde_json::Value) *)

\* the largest u64 and u32 of the model: the widths are scaled down, and a
\* value above them does not fit the field
U64Max == 255
U32Max == 15
\* the largest u16 of the model
U16Max == 7
\* longest digit string tried as a progress count
MaxDigits == 3

\* A string is the sequence of its characters.
JNull == [t |-> "null", v |-> 0]
JBool(b) == [t |-> "bool", v |-> b]
JNum(n) == [t |-> "num", v |-> n]
JFloat(tenths) == [t |-> "float", v |-> tenths]
JStr(cs) == [t |-> "str", v |-> cs]
JArr(xs) == [t |-> "arr", v |-> xs]
JObj(f) == [t |-> "obj", v |-> f]

\* marks a key a record does not hold
Absent == [t |-> "absent", v |-> 0]
Strip(f) == [k \in { x \in DOMAIN f : f[x] # Absent } |-> f[k]]
EmptyMap == [k \in {} |-> JNull]

\* impl Index<&str> for Value: Null unless an object holding the key
Index(x, key) ==
    IF x.t = "obj" /\ key \in DOMAIN x.v THEN x.v[key] ELSE JNull

T_cert == <<"c", "e", "r", "t">>
T_progress == <<"p", "r", "o", "g", "r", "e", "s", "s">>
T_info == <<"i", "n", "f", "o">>
T_ip == <<"i", "p">>
T_subscription ==
    <<"s", "u", "b", "s", "c", "r", "i", "p", "t", "i", "o", "n">>
T_bogus == <<"b", "o", "g", "u", "s">>

-----------------------------------------------------------------------------
(* serde: deserializing a Value into the types of types.rs *)

F(key, ty) == [key |-> key, ty |-> ty, opt |-> FALSE, dflt |-> FALSE]
\* an Option<T> field: a missing key or null is None
FO(key, ty) == [key |-> key, ty |-> ty, opt |-> TRUE, dflt |-> FALSE]
\* #[serde(default)] on an Option<T> field
FD(key, ty) == [key |-> key, ty |-> ty, opt |-> TRUE, dflt |-> TRUE]

StructNames ==
    { "CertEventData", "CertDetails", "Instance", "Url", "Config", "Metadata",
      "InfoEventData", "IpEventData", "SubscriptionEventData" }

\* the fields of each struct, in declaration order, under their JSON names
Schema(name) ==
    CASE name = "CertEventData" ->
            << F("issuer", "string"), F("altnames", "vec_string"),
               F("expiresInWords", "string") >>
      [] name = "CertDetails" ->
            << F("subject", "string"), F("issuer", "string"),
               F("notBefore", "string"), F("notAfter", "string"),
               F("expInDays", "u32"), F("subjectAltNames", "vec_string"),
               F("certName", "string"), F("autoRenew", "bool") >>
      [] name = "Instance" ->
            << F("confirmation", "string"), F("confirmationColor", "string"),
               F("domain", "string"), F("info", "string"), F("ip", "string"),
               F("location", "string"), FO("provider", "string"),
               F("status", "string"), F("statusColor", "string"),
               F("type", "string") >>
      [] name = "Url" -> << F("domain", "string"), F("name", "string") >>
      [] name = "Config" ->
            << FO("cors", "value"), FO("force", "value"), FO("hsts", "value"),
               FO("redirect", "value"), FO("ttl", "value"), FD("pdf", "bool") >>
      [] name = "Metadata" ->
            << FO("buildTime", "string"), F("cliVersion", "string"),
               F("cmd", "string"), F("config", "Config"), F("current", "bool"),
               F("email", "string"), F("ip", "string"), FO("message", "string"),
               F("output", "value"), F("platform", "string"),
               F("preview", "string"), F("privateFileCount", "u64"),
               F("privateFileList", "vec_string"), F("publicFileCount", "u64"),
               F("publicTotalSize", "u64"), F("rev", "u64"),
               F("uploadDuration", "f64"), F("uploadEndTime", "u64"),
               F("uploadStartTime", "u64") >>
      [] name = "InfoEventData" ->
            << F("certs", "vec_CertDetails"), F("config", "Config"),
               F("instances", "vec_Instance"), F("metadata", "Metadata"),
               F("urls", "vec_Url") >>
      [] name = "IpEventData" -> << F("ip", "string") >>
      [] name = "SubscriptionEventData" -> << FD("data", "value") >>

\* error.rs: struct ApiErrorResponse
ApiErrorResponse ==
    << F("errors", "vec_string"), F("details", "value"), FO("status", "u16") >>

\* responses/login.rs: struct LoginResponse
LoginResponse == << F("email", "string"), F("token", "string") >>

VecOf(ty) ==
    CASE ty = "vec_string" -> "string"
      [] ty = "vec_CertDetails" -> "CertDetails"
      [] ty = "vec_Instance" -> "Instance"
      [] ty = "vec_Url" -> "Url"

VecTypes == { "vec_string", "vec_CertDetails", "vec_Instance", "vec_Url" }

RECURSIVE Conforms(_, _)

\* a derived struct: from a map by key (unknown keys are skipped), from an
\* array by position (no element may be left over)
ConformsStruct(sch, x) ==
    IF x.t = "obj"
    THEN \A i \in 1..Len(sch) :
            IF sch[i].key \in DOMAIN x.v
            THEN \/ sch[i].opt /\ x.v[sch[i].key].t = "null"
                 \/ Conforms(sch[i].ty, x.v[sch[i].key])
            ELSE sch[i].opt
    ELSE IF x.t = "arr"
    THEN /\ Len(x.v) <= Len(sch)
         /\ \A i \in 1..Len(sch) :
               IF i <= Len(x.v)
               THEN \/ sch[i].opt /\ x.v[i].t = "null"
                    \/ Conforms(sch[i].ty, x.v[i])
               ELSE sch[i].dflt
    ELSE FALSE

\* serde_json::from_value::<T>(x) is Ok
Conforms(ty, x) ==
    CASE ty = "string" -> x.t = "str"
      [] ty = "u64" -> x.t = "num" /\ x.v >= 0 /\ x.v <= U64Max
      [] ty = "u32" -> x.t = "num" /\ x.v >= 0 /\ x.v <= U32Max
      [] ty = "u16" -> x.t = "num" /\ x.v >= 0 /\ x.v <= U16Max
      [] ty = "f64" -> x.t \in {"num", "float"}
      [] ty = "bool" -> x.t = "bool"
      [] ty = "value" -> TRUE
      [] ty \in VecTypes ->
            x.t = "arr" /\ \A i \in 1..Len(x.v) : Conforms(VecOf(ty), x.v[i])
      [] ty \in StructNames -> ConformsStruct(Schema(ty), x)
      [] ty = "ApiErrorResponse" -> ConformsStruct(ApiErrorResponse, x)
      [] ty = "LoginResponse" -> ConformsStruct(LoginResponse, x)

Ok(v) == [ok |-> TRUE, val |-> v]
Err == [ok |-> FALSE, val |-> 0]

Digits == {"0", "1", "2", "3", "4", "5", "6", "7", "8", "9"}
DigitVal(c) ==
    CASE c = "0" -> 0 [] c = "1" -> 1 [] c = "2" -> 2 [] c = "3" -> 3
      [] c = "4" -> 4 [] c = "5" -> 5 [] c = "6" -> 6 [] c = "7" -> 7
      [] c = "8" -> 8 [] c = "9" -> 9

\* the digit loop of u64::from_str: a non-digit or an overflow is an error
RECURSIVE ParseDigits(_, _)
ParseDigits(cs, acc) ==
    IF cs = <<>> THEN Ok(acc)
    ELSE IF Head(cs) \notin Digits THEN Err
    ELSE LET a == acc * 10 + DigitVal(Head(cs))
         IN  IF a > U64Max THEN Err ELSE ParseDigits(Tail(cs), a)

\* s.parse::<u64>(): an optional "+", then at least one digit
parse_u64(cs) ==
    IF cs = <<>> THEN Err
    ELSE LET body == IF Head(cs) = "+" THEN Tail(cs) ELSE cs
         IN  IF body = <<>> THEN Err ELSE ParseDigits(body, 0)

\* a written field that takes a number only
deserialize_written_number_only(x) ==
    IF Conforms("u64", x) THEN Ok(x.v) ELSE Err

\* deserialize_written: the untagged StringOrNumber, then the string parsed
deserialize_written(x) ==
    IF x.t = "str" THEN parse_u64(x.v)
    ELSE IF Conforms("u64", x) THEN Ok(x.v)
    ELSE Err

\* Option<bool>
DeOptBool(o, key) ==
    IF key \notin DOMAIN o THEN Ok("None")
    ELSE IF o[key].t = "null" THEN Ok("None")
    ELSE IF o[key].t = "bool" THEN Ok(o[key].v)
    ELSE Err

\* serde_json::from_value::<ProgressData>(raw.data), raw.data an object
DeProgressData(x) ==
    LET o == x.v
        w == IF "written" \in DOMAIN o THEN deserialize_written(o["written"])
             ELSE Err
        e == DeOptBool(o, "end")
    IN  IF /\ "id" \in DOMAIN o /\ Conforms("string", o["id"])
           /\ w.ok
           /\ "total" \in DOMAIN o /\ Conforms("u64", o["total"])
           /\ e.ok
        THEN Ok([id |-> o["id"].v, written |-> w.val,
                 total |-> o["total"].v, end |-> e.val])
        ELSE Err

\* a RawEvent whose data is the "data" key alone, the other fields dropped
DeRawEventNotFlattened(rec) ==
    IF "type" \in DOMAIN rec /\ rec["type"].t = "str" /\ "data" \in DOMAIN rec
    THEN Ok([event_type |-> rec["type"].v, data |-> rec["data"]])
    ELSE Err

\* #[derive(Deserialize)] struct RawEvent: the "type" string, and every other
\* field flattened into data
DeRawEvent(rec) ==
    IF "type" \in DOMAIN rec /\ rec["type"].t = "str"
    THEN Ok([event_type |-> rec["type"].v,
             data |-> JObj([k \in DOMAIN rec \ {"type"} |-> rec[k]])])
    ELSE Err

-----------------------------------------------------------------------------
(* impl From<RawEvent> for Event *)

Ev(k, v) == [k |-> k, v |-> v]

\* a fallback arm that hands on the parse failure instead of the record
UnknownAsFailure(r) == Ev("Failure", [event_type |-> r.event_type, data |-> JNull])

\* Event::Unknown { event_type: raw.event_type, data: raw.data }
Unknown(r) == Ev("Unknown", [event_type |-> r.event_type, data |-> r.data])

\* the value of a struct's first field, from a map or an array
FirstField(name, d) ==
    IF d.t = "obj" THEN Index(d, Schema(name)[1].key)
    ELSE IF Len(d.v) >= 1 THEN d.v[1] ELSE JNull

EventFrom(r) ==
    CASE r.event_type = T_cert ->
            LET d == Index(r.data, "data")
            IN  IF Conforms("CertEventData", d) THEN Ev("Cert", d)
                ELSE Unknown(r)
      [] r.event_type = T_progress ->
            LET p == DeProgressData(r.data)
            IN  IF p.ok THEN Ev("Progress", p.val) ELSE Unknown(r)
      [] r.event_type = T_info ->
            IF Conforms("InfoEventData", r.data) THEN Ev("Info", r.data)
            ELSE Unknown(r)
      [] r.event_type = T_ip ->
            LET d == Index(r.data, "data")
            IN  IF Conforms("IpEventData", d)
                THEN Ev("Ip", [ip |-> FirstField("IpEventData", d).v])
                ELSE Unknown(r)
      [] r.event_type = T_subscription ->
            LET d == Index(r.data, "data")
            IN  IF Conforms("SubscriptionEventData", d)
                THEN Ev("Subscription",
                        [data |-> FirstField("SubscriptionEventData", d)])
                ELSE Unknown(r)
      [] OTHER -> Unknown(r)

-----------------------------------------------------------------------------
(* The records the classifier is run on *)

DigitAlphabet == {"0", "5", "9"}
DigitStrs == UNION { [1..n -> DigitAlphabet] : n \in 0..MaxDigits }

S_x == <<"x">>
S_ip == <<"1", ".", "2">>

TypeVals ==
    { Absent, JNum(5), JStr(T_cert), JStr(T_progress), JStr(T_info),
      JStr(T_ip), JStr(T_subscription), JStr(T_bogus) }

WrittenVals ==
    { Absent, JNum(0), JNum(75), JNum(U64Max), JNum(U64Max + 1), JNum(-1),
      JFloat(15), JBool(TRUE), JStr(<<"+", "5">>), JStr(<<"-", "5">>),
      JStr(<<"5", "a">>) }
    \cup { JStr(cs) : cs \in DigitStrs }

ProgressPayloads ==
    { [id |-> i, written |-> w, total |-> t, end |-> e, foo |-> x] :
        i \in {Absent, JStr(S_x), JNum(1)},
        w \in WrittenVals,
        t \in {Absent, JNum(100), JStr(<<"1", "0", "0">>)},
        e \in {Absent, JBool(TRUE), JNull, JStr(<<"y">>)},
        x \in {Absent, JNum(1)} }

CertOk ==
    [issuer |-> JStr(S_x), altnames |-> JArr(<<JStr(S_x)>>),
     expiresInWords |-> JStr(S_x)]

DataVals ==
    { Absent, JNull, JStr(S_x), JNum(1), JObj(EmptyMap), JArr(<<>>),
      JObj([ip |-> JStr(S_ip)]), JObj([ip |-> JNum(5)]),
      JArr(<<JStr(S_ip)>>), JArr(<<JNum(1), JNum(2)>>),
      JObj(CertOk), JObj([issuer |-> JStr(S_x)]) }

DataPayloads ==
    { [data |-> d, ip |-> a] : d \in DataVals, a \in {Absent, JStr(S_ip)} }

MetadataOk ==
    [cliVersion |-> JStr(S_x), cmd |-> JStr(S_x), config |-> JObj(EmptyMap),
     current |-> JBool(TRUE), email |-> JStr(S_x), ip |-> JStr(S_ip),
     output |-> JNull, platform |-> JStr(S_x), preview |-> JStr(S_x),
     privateFileCount |-> JNum(0), privateFileList |-> JArr(<<>>),
     publicFileCount |-> JNum(2), publicTotalSize |-> JNum(10),
     rev |-> JNum(1), uploadDuration |-> JFloat(15),
     uploadEndTime |-> JNum(2), uploadStartTime |-> JNum(1)]

UrlOk == [domain |-> JStr(S_x), name |-> JStr(S_x)]

InfoPayloads ==
    { [certs |-> c, config |-> JObj(EmptyMap), instances |-> JArr(<<>>),
       metadata |-> m, urls |-> u] :
        c \in {JArr(<<>>), JStr(S_x)},
        m \in {JObj(MetadataOk), JObj([cmd |-> JStr(S_x)])},
        u \in {Absent, JArr(<<JObj(UrlOk)>>)} }

Payloads == ProgressPayloads \cup DataPayloads \cup InfoPayloads

\* one NDJSON line, parsed: a JSON object
WithType(ty, f) ==
    Strip([k \in DOMAIN f \cup {"type"} |-> IF k = "type" THEN ty ELSE f[k]])

Records == { WithType(ty, f) : ty \in TypeVals, f \in Payloads }

\* serde_json::from_str::<RawEvent>(line)
Deserialize ==
    /\ epc = "line"
    /\ LET r == DeRawEvent(record)
       IN  IF r.ok THEN raw' = r.val /\ epc' = "raw"
           ELSE raw' = raw /\ epc' = "jsonerr"
    /\ UNCHANGED <<record, event>>
    /\ UNCHANGED <<fsVars, scanVars, taskVars, pipeVars, streamVars, respVars>>
    /\ UNCHANGED callVars

\* Event::from(raw)
Classify ==
    /\ epc = "raw"
    /\ event' = EventFrom(raw)
    /\ epc' = "event"
    /\ UNCHANGED <<record, raw>>
    /\ UNCHANGED <<fsVars, scanVars, taskVars, pipeVars, streamVars, respVars>>
    /\ UNCHANGED callVars

-----------------------------------------------------------------------------
(* publish after the request is sent: the status check and the NDJSON
   decoder over res.bytes_stream() *)

\* most lines a response body holds
MaxLines == 3

DigitChar(d) == CHOOSE c \in Digits : DigitVal(c) = d

RECURSIVE NumChars(_)
NumChars(n) ==
    IF n < 10 THEN <<DigitChar(n)>>
    ELSE NumChars(n \div 10) \o <<DigitChar(n % 10)>>

\* the keys of the payloads below, in the order a serde_json Map keeps them
KeyOrder ==
    <<"_", "e", "end", "endpoint", "foo", "id", "msg", "s", "stage", "total",
      "written">>

KeyChars(k) ==
    CASE k = "_" -> <<"_">>
      [] k = "e" -> <<"e">>
      [] k = "endpoint" -> <<"e", "n", "d", "p", "o", "i", "n", "t">>
      [] k = "s" -> <<"s">>
      [] k = "stage" -> <<"s", "t", "a", "g", "e">>
      [] k = "end" -> <<"e", "n", "d">>
      [] k = "foo" -> <<"f", "o", "o">>
      [] k = "id" -> <<"i", "d">>
      [] k = "msg" -> <<"m", "s", "g">>
      [] k = "total" -> <<"t", "o", "t", "a", "l">>
      [] k = "written" -> <<"w", "r", "i", "t", "t", "e", "n">>

\* Value::to_string(): compact JSON text
RECURSIVE to_string(_), ArrItems(_), ObjItems(_, _)
to_string(x) ==
    CASE x.t = "null" -> <<"n", "u", "l", "l">>
      [] x.t = "bool" ->
            IF x.v THEN <<"t", "r", "u", "e">> ELSE <<"f", "a", "l", "s", "e">>
      [] x.t = "num" ->
            IF x.v < 0 THEN <<"-">> \o NumChars(-x.v) ELSE NumChars(x.v)
      [] x.t = "float" ->
            NumChars(x.v \div 10) \o <<".">> \o NumChars(x.v % 10)
      [] x.t = "str" -> <<"\"">> \o x.v \o <<"\"">>
      [] x.t = "arr" -> <<"[">> \o ArrItems(x.v) \o <<"]">>
      [] x.t = "obj" ->
            <<"{">>
            \o ObjItems(x.v, SelectSeq(KeyOrder, LAMBDA k : k \in DOMAIN x.v))
            \o <<"}">>

ArrItems(xs) ==
    IF xs = <<>> THEN <<>>
    ELSE to_string(Head(xs))
         \o (IF Tail(xs) = <<>> THEN <<>> ELSE <<",">> \o ArrItems(Tail(xs)))

ObjItems(f, ks) ==
    IF ks = <<>> THEN <<>>
    ELSE <<"\"">> \o KeyChars(Head(ks)) \o <<"\"", ":">> \o to_string(f[Head(ks)])
         \o (IF Tail(ks) = <<>> THEN <<>> ELSE <<",">> \o ObjItems(f, Tail(ks)))

\* str::contains
Contains(hay, needle) ==
    \E i \in 1..(Len(hay) - Len(needle) + 1) :
        SubSeq(hay, i, i + Len(needle) - 1) = needle

\* "error"
ErrorMarker == <<"e", "r", "r", "o", "r">>

NoEvent == [event_type |-> <<>>, data |-> JNull]
ItemOf(ok, kind, ev, at) == [ok |-> ok, kind |-> kind, ev |-> ev, at |-> at]

\* an event mapping that looks at the type alone
EventItemTypeOnly(ev, at) ==
    IF ev.event_type = ErrorMarker
    THEN ItemOf(FALSE, "EventError", ev, at)
    ELSE ItemOf(TRUE, "Event", ev, at)

\* Ok(event) => if event.event_type == "error"
\*                 || event.data.to_string().contains("error") { Err } else { Ok }
EventItem(ev, at) ==
    IF ev.event_type = ErrorMarker \/ Contains(to_string(ev.data), ErrorMarker)
    THEN ItemOf(FALSE, "EventError", ev, at)
    ELSE ItemOf(TRUE, "Event", ev, at)

\* the closure over the decoder's results
MapResult(r) ==
    CASE r.kind = "ok" -> EventItem(r.val, r.at)
      [] r.kind = "json" -> ItemOf(FALSE, "Json", NoEvent, r.at)
      [] r.kind = "input" -> ItemOf(FALSE, "Io", NoEvent, r.at)

\* The body is a sequence of units: "NL" is a newline, "Lead" and "Cont" are
\* the two bytes of one non-ASCII character, "Bad" is a byte that no UTF-8
\* text holds, and every other unit is a piece of ASCII text.
LineIds == {"p", "e", "m", "u", "n", "b", "empty"}

LineText(id) ==
    CASE id = "p" -> <<"p1", "p2">>
      [] id = "e" -> <<"e1", "e2">>
      [] id = "m" -> <<"m1", "m2">>
      [] id = "u" -> <<"u1", "Lead", "Cont", "u2">>
      [] id = "n" -> <<"n1", "n2">>
      [] id = "b" -> <<"Bad">>
      [] id = "empty" -> <<>>

\* the lines that are JSON objects, and the object each one is
JsonIds == {"p", "e", "m", "u"}

LineRec(id) ==
    CASE id = "p" ->
            [type |-> JStr(T_progress), id |-> JStr(<<"x">>),
             written |-> JStr(<<"5", "0">>), total |-> JNum(100)]
      [] id = "e" -> [type |-> JStr(ErrorMarker), msg |-> JStr(<<"x">>)]
      [] id = "m" ->
            [type |-> JStr(T_info),
             msg |-> JStr(<<"n", "o", " ", "e", "r", "r", "o", "r", "s">>)]
      [] id = "u" -> [type |-> JStr(T_info), msg |-> JStr(<<"e-acute">>)]

RECURSIVE Body(_)
Body(lines) ==
    IF lines = <<>> THEN <<>>
    ELSE LineText(Head(lines)) \o <<"NL">> \o Body(Tail(lines))

Statuses == {200, 404, 500}

Responses ==
    { [status |-> st, lines |-> ls] :
        st \in Statuses, ls \in UNION { [1..n -> LineIds] : n \in 0..MaxLines } }

\* StatusCode::is_success
is_success(st) == 200 <= st /\ st < 300

\* Display for StatusCode: the number and its canonical reason
canonical_reason(st) ==
    CASE st = 200 -> "OK"
      [] st = 404 -> "Not Found"
      [] st = 500 -> "Internal Server Error"

\* SurgeError::Api(ApiError { errors, details, status })
ApiError(st) ==
    [kind |-> "Api",
     errors |-> << <<"Request failed with status: ">> \o NumChars(st)
                   \o <<" ", canonical_reason(st)>> >>,
     details |-> JObj(EmptyMap),
     status |-> st]

\* String::from_utf8(bytes.to_vec()) on one chunk
Utf8Valid(chunk) ==
    \A i \in 1..Len(chunk) :
        /\ chunk[i] # "Bad"
        /\ chunk[i] = "Lead" => (i < Len(chunk) /\ chunk[i + 1] = "Cont")
        /\ chunk[i] = "Cont" => (i > 1 /\ chunk[i - 1] = "Lead")

\* serde_json::from_slice of one line into the event
ParseLine(units, at) ==
    IF \E id \in JsonIds : units = LineText(id)
    THEN LET id == CHOOSE x \in JsonIds : units = LineText(x)
             r == DeRawEvent(LineRec(id))
         IN  IF r.ok THEN [kind |-> "ok", val |-> r.val, at |-> at]
             ELSE [kind |-> "json", val |-> NoEvent, at |-> at]
    ELSE [kind |-> "json", val |-> NoEvent, at |-> at]

\* NdjsonEngine::input with EmptyLineHandling::IgnoreEmpty: each newline
\* ends a line, which is parsed unless it is empty; what follows the last
\* newline is kept for the next chunk. pos is the body position before
\* the chunk.
RECURSIVE EngineInput(_, _, _)
EngineInput(e, chunk, pos) ==
    IF chunk = <<>> THEN e
    ELSE IF Head(chunk) = "NL"
    THEN EngineInput(
            [in_queue |-> <<>>,
             out_queue |-> IF e.in_queue = <<>> THEN e.out_queue
                           ELSE Append(e.out_queue,
                                       ParseLine(e.in_queue, pos + 1))],
            Tail(chunk), pos + 1)
    ELSE EngineInput([e EXCEPT !.in_queue = Append(e.in_queue, Head(chunk))],
                     Tail(chunk), pos + 1)

\* if !res.status().is_success() { return Err(SurgeError::Api(..)) }
CheckStatus ==
    /\ dpc = "sent"
    /\ IF is_success(resp.status)
       THEN dpc' = "stream" /\ UNCHANGED publishErr
       ELSE dpc' = "failed" /\ publishErr' = ApiError(resp.status)
    /\ UNCHANGED <<resp, rpos, in_queue, out_queue, items>>
    /\ UNCHANGED <<fsVars, scanVars, taskVars, pipeVars, streamVars, eventVars>>
    /\ UNCHANGED callVars

\* poll_next of the event sequence: a parsed line is waiting
PollPop ==
    /\ dpc = "stream"
    /\ out_queue # <<>>
    /\ items' = Append(items, MapResult(Head(out_queue)))
    /\ out_queue' = Tail(out_queue)
    /\ UNCHANGED <<resp, dpc, publishErr, rpos, in_queue>>
    /\ UNCHANGED <<fsVars, scanVars, taskVars, pipeVars, streamVars, eventVars>>
    /\ UNCHANGED callVars

\* poll_next of the event sequence: the byte stream hands over its next
\* chunk, of whatever length the transport cut it
PollChunk ==
    /\ dpc = "stream"
    /\ out_queue = <<>>
    /\ rpos < Len(Body(resp.lines))
    /\ \E k \in 1..(Len(Body(resp.lines)) - rpos) :
         LET chunk == SubSeq(Body(resp.lines), rpos + 1, rpos + k)
             e == EngineInput([in_queue |-> in_queue, out_queue |-> out_queue],
                              chunk, rpos)
         IN  /\ rpos' = rpos + k
             /\ IF Utf8Valid(chunk)
                THEN /\ in_queue' = e.in_queue
                     /\ out_queue' = e.out_queue
                     /\ UNCHANGED items
                ELSE /\ items' = Append(items,
                            MapResult([kind |-> "input", val |-> NoEvent,
                                       at |-> rpos + k]))
                     /\ UNCHANGED <<in_queue, out_queue>>
    /\ UNCHANGED <<resp, dpc, publishErr>>
    /\ UNCHANGED <<fsVars, scanVars, taskVars, pipeVars, streamVars, eventVars>>
    /\ UNCHANGED callVars

\* poll_next of the event sequence: the byte stream has ended; the engine is
\* finalized (the rest after the last newline is not parsed) and the
\* sequence ends
PollEnd ==
    /\ dpc = "stream"
    /\ out_queue = <<>>
    /\ rpos = Len(Body(resp.lines))
    /\ in_queue' = <<>>
    /\ dpc' = "ended"
    /\ UNCHANGED <<resp, publishErr, rpos, out_queue, items>>
    /\ UNCHANGED <<fsVars, scanVars, taskVars, pipeVars, streamVars, eventVars>>
    /\ UNCHANGED callVars

-----------------------------------------------------------------------------
(* publish and publish_wip: the request *)

\* the latest clock reading of the model, in milliseconds
MaxClock == 12

\* client.config.endpoint (a Url: it ends with '/') and client.config.version
Endpoint ==
    <<"h", "t", "t", "p", "s", ":", "/", "/", "s", ".", "s", "h", "/">>
Version == <<"0", ".", "1", ".", "0">>

S_true == <<"t", "r", "u", "e">>
S_false == <<"f", "a", "l", "s", "e">>
S_null == <<"n", "u", "l", "l">>
S_token == <<"t", "o", "k", "e", "n">>

None == [some |-> FALSE, v |-> <<>>]
Some(x) == [some |-> TRUE, v |-> x]

\* Auth::Token(token) | Auth::UserPass { username, password }
Token(tok) ==
    [kind |-> "Token", token |-> tok, username |-> <<>>, password |-> <<>>]
UserPass(u, pw) ==
    [kind |-> "UserPass", token |-> <<>>, username |-> u, password |-> pw]

Domains == { <<"x">>, <<"a", ".", "b">> }
Auths == { Token(S_x), Token(S_token), UserPass(<<"u">>, <<"p", "w">>) }
CustomHeaders ==
    { None, Some(<<>>), Some(<< <<"x-a", S_x>> >>),
      Some(<< <<"file-count", <<"9">>>> >>) }
Argvs == { None, Some(<<>>), Some(<<S_x>>) }

\* the clock when the call starts, and when its scan has returned
Clocks == { [now |-> 1, later |-> 1], [now |-> MaxClock, later |-> MaxClock + 1] }

\* the arguments of a call, and the clock it reads
Calls ==
    [wip : BOOLEAN, domain : Domains, clock : Clocks, auth : Auths,
     headers : CustomHeaders, argv : Argvs]

DefaultCall ==
    [wip |-> FALSE, domain |-> <<"x">>, clock |-> [now |-> 1, later |-> 1],
     auth |-> Token(S_x), headers |-> None, argv |-> None]

\* RequestBuilder::header appends; names are case-insensitive and kept in
\* lower case
WithHeader(r, name, value) ==
    [r EXCEPT !.headers = Append(r.headers, <<name, value>>)]

RECURSIVE WithHeaders(_, _)
WithHeaders(r, hs) ==
    IF hs = <<>> THEN r
    ELSE WithHeaders(WithHeader(r, Head(hs)[1], Head(hs)[2]), Tail(hs))

\* client.put(&url)
Put(url) == [method |-> "PUT", url |-> url, headers |-> <<>>, body |-> "none"]

\* chrono's to_rfc3339: the text is not spelled out, the header holds the
\* clock reading it prints
Rfc3339(t) == [rfc3339 |-> t]

\* RequestBuilder::basic_auth(username, Some(password)): the Authorization
\* header is "Basic " and the base64 of username:password; base64 is left
\* at the text it encodes
BasicAuth(r, username, password) ==
    WithHeader(r, "authorization",
               [basic |-> username \o <<":">> \o password])

\* an apply_auth that sends the token as the username, with no password
apply_auth_token_as_username(r, auth) ==
    IF auth.kind = "Token" THEN BasicAuth(r, auth.token, <<>>)
    ELSE BasicAuth(r, auth.username, auth.password)

\* SurgeSdk::apply_auth
apply_auth(r, auth) ==
    IF auth.kind = "Token" THEN BasicAuth(r, S_token, auth.token)
    ELSE BasicAuth(r, auth.username, auth.password)

\* json!({"_": args, "e": .., "endpoint": .., "s": stage, "stage": stage})
\* .to_string(); without argv the array is empty
argv_json(argv, stage) ==
    LET args == IF argv.some THEN argv.v ELSE <<>>
    IN  to_string(JObj(
          ("_" :> JArr([i \in 1..Len(args) |-> JStr(args[i])]))
          @@ ("e" :> JStr(Endpoint)) @@ ("endpoint" :> JStr(Endpoint))
          @@ ("s" :> JBool(stage)) @@ ("stage" :> JBool(stage))))

\* headers that carry the two counts in each other's place
MetadataHeadersSwapped(md) ==
    << <<"file-count", NumChars(md.project_size)>>,
       <<"project-size", NumChars(md.file_count)>> >>

\* .header("file-count", metadata.file_count.to_string())
\* .header("project-size", metadata.project_size.to_string())
MetadataHeaders(md) ==
    << <<"file-count", NumChars(md.file_count)>>,
       <<"project-size", NumChars(md.project_size)>> >>

\* a preview domain without its time prefix
preview_domain_no_prefix(now, domain) == domain

\* format!("{}-{}", chrono::Utc::now().timestamp_millis(), domain)
preview_domain(now, domain) == NumChars(now) \o <<"-">> \o domain

\* publish, from the URL to the request it sends; md is what the scan returned
publish(c, md) ==
    LET url == Endpoint \o c.domain
        r1 == WithHeaders(Put(url),
                << <<"content-type", "application/gzip">>,
                   <<"accept", "application/ndjson">>,
                   <<"version", Version>>,
                   <<"timestamp", Rfc3339(c.clock.later)>>,
                   <<"stage", S_false>>,
                   <<"ssl", S_null>>,
                   <<"argv", argv_json(c.argv, FALSE)>> >>)
        r2 == WithHeaders(r1, MetadataHeaders(md))
        r3 == IF c.headers.some THEN WithHeaders(r2, c.headers.v) ELSE r2
        r4 == [r3 EXCEPT !.body = "TarGzStream"]
    IN  apply_auth(r4, c.auth)

\* publish_wip, likewise
publish_wip(c, md) ==
    LET url == Endpoint \o preview_domain(c.clock.now, c.domain)
        r1 == WithHeaders(Put(url),
                << <<"content-type", "application/gzip">>,
                   <<"accept", "application/ndjson">>,
                   <<"version", Version>>,
                   <<"timestamp", Rfc3339(c.clock.later)>>,
                   <<"stage", S_true>>,
                   <<"ssl", S_null>>,
                   <<"argv", argv_json(c.argv, TRUE)>> >>)
        r2 == WithHeaders(r1, MetadataHeaders(md))
        r3 == IF c.headers.some THEN WithHeaders(r2, c.headers.v) ELSE r2
        r4 == [r3 EXCEPT !.body = "TarGzStream"]
    IN  apply_auth(r4, c.auth)

\* TarGzStream::new: the path is checked, the matcher is built, the pipe
\* made, the task spawned. Within publish and publish_wip it follows the
\* scan, and the request is sent with the stream as its body.
StreamNew ==
    /\ spc \in {"idle", "done"}
    /\ DirCheck(tree).kind = "none"
    /\ GitignoreError(tree, rules).kind = "none"
    /\ tpc = "idle"
    /\ tpc' = "walk"
    /\ tstack' = <<{Root}>>
    /\ taskSome' = TRUE
    /\ cstate' = "ready"
    /\ IF spc = "done"
       THEN LET md == [file_count |-> file_count,
                       project_size |-> project_size]
            IN  req' = IF call.wip THEN publish_wip(call, md)
                       ELSE publish(call, md)
       ELSE req' = req
    /\ UNCHANGED <<fsVars, scanVars, entries, tresult, dataLen, nwritten>>
    /\ UNCHANGED <<pipeVars, done, readerSome, rcap, yielded, eventVars, respVars>>
    /\ UNCHANGED <<call, first, sdkVars>>

\* a second calculate_metadata on the same tree: the first call's result is
\* kept and the scan starts again
ScanAgain ==
    /\ spc \in {"done", "failed"}
    /\ first = <<>>
    /\ first' = [ok |-> spc = "done", file_count |-> file_count,
                 project_size |-> project_size]
    /\ spc' = "start" /\ scan_err' = NoError
    /\ pending' = {} /\ chan' = <<>>
    /\ file_count' = 0 /\ project_size' = 0 /\ counted' = {}
    /\ UNCHANGED <<fsVars, taskVars, pipeVars, streamVars, eventVars, respVars>>
    /\ UNCHANGED <<call, req, sdkVars>>

-----------------------------------------------------------------------------
(* SurgeSdk::login *)

\* the value of a struct's i-th field, from a map or an array; Null when
\* the input does not hold it
FieldAt(sch, i, d) ==
    IF d.t = "obj" THEN Index(d, sch[i].key)
    ELSE IF d.t = "arr" /\ Len(d.v) >= i THEN d.v[i] ELSE JNull

\* a response body: text that is a JSON value, or text that is none
JsonText(v) == [read |-> TRUE, json |-> TRUE, v |-> v]
PlainText(cs) == [read |-> TRUE, json |-> FALSE, v |-> JStr(cs)]
\* res.text() failed
NoText == [read |-> FALSE, json |-> FALSE, v |-> JNull]

S_a == <<"a">>
S_b == <<"b">>

ErrorsVals ==
    { Absent, JArr(<<>>), JArr(<<JStr(S_a)>>), JArr(<<JStr(S_a), JStr(S_b)>>),
      JStr(S_a), JArr(<<JNum(1)>>) }
DetailsVals == { Absent, JObj(EmptyMap), JNull, JStr(S_x) }
StatusVals ==
    { Absent, JNull, JNum(4), JNum(U16Max + 1), JStr(<<"4">>) }

LoginBodies ==
    { JsonText(JObj(Strip([errors |-> e, details |-> d, status |-> st]))) :
        e \in ErrorsVals, d \in DetailsVals, st \in StatusVals }
    \cup
    { JsonText(JObj(Strip([email |-> em, token |-> tk]))) :
        em \in {Absent, JStr(S_a)}, tk \in {Absent, JStr(S_x), JNum(1)} }
    \cup
    { JsonText(JArr(<<JArr(<<JStr(S_a)>>), JObj(EmptyMap)>>)),
      JsonText(JArr(<<JArr(<<JStr(S_a)>>), JObj(EmptyMap), JNum(4)>>)),
      JsonText(JArr(<<JArr(<<JStr(S_a)>>), JObj(EmptyMap), JNum(4), JNull>>)),
      JsonText(JArr(<<JStr(S_a), JStr(S_x)>>)),
      JsonText(JNull),
      PlainText(<<"o", "o", "p", "s">>), PlainText(<<>>), NoText }

\* what the server did: sent is FALSE when req.send() failed
LoginResponses ==
    { [sent |-> TRUE, status |-> st, body |-> b] :
        st \in Statuses, b \in LoginBodies }
    \cup { [sent |-> FALSE, status |-> 0, body |-> NoText] }

\* [String]::join
RECURSIVE Join(_, _)
Join(strs, sep) ==
    IF strs = <<>> THEN <<>>
    ELSE IF Len(strs) = 1 THEN strs[1]
    ELSE strs[1] \o sep \o Join(Tail(strs), sep)

\* serde_json::from_str::<T>(text) is Ok
ParsesAs(ty, body) == body.json /\ Conforms(ty, body.v)

\* Err(SurgeError::Api { status: api_error.status,
\*                       message: api_error.errors.join("; "),
\*                       details: api_error.details })
ApiErrorFrom(body) ==
    LET st == FieldAt(ApiErrorResponse, 3, body.v)
        errs == FieldAt(ApiErrorResponse, 1, body.v).v
    IN  [kind |-> "Api",
         status |-> IF st.t = "null" THEN None ELSE Some(st.v),
         message |-> Join([i \in 1..Len(errs) |-> errs[i].v], <<";", " ">>),
         details |-> FieldAt(ApiErrorResponse, 2, body.v)]

\* SurgeError::Http(format!("HTTP error: status {}, body: {}", status, body_text))
HttpError(st, body) == [kind |-> "Http", status |-> st, body |-> body]

LoginOk(body) ==
    [kind |-> "Ok",
     email |-> FieldAt(LoginResponse, 1, body.v).v,
     token |-> FieldAt(LoginResponse, 2, body.v).v]

\* a login that reads the body without looking at the status
login_ignores_status(res) ==
    IF ~res.sent \/ res.body = NoText THEN [kind |-> "Network"]
    ELSE IF ParsesAs("LoginResponse", res.body) THEN LoginOk(res.body)
    ELSE [kind |-> "Json"]

login(res) ==
    IF ~res.sent \/ res.body = NoText THEN [kind |-> "Network"]
    ELSE IF is_success(res.status)
    THEN IF ParsesAs("LoginResponse", res.body) THEN LoginOk(res.body)
         ELSE [kind |-> "Json"]
    ELSE IF ParsesAs("ApiErrorResponse", res.body)
    THEN ApiErrorFrom(res.body)
    ELSE HttpError(res.status, res.body)

Login ==
    /\ lres # <<>>
    /\ lret = <<>>
    /\ lret' = login(lres)
    /\ UNCHANGED <<lres, jin, jout, call, req, first>>
    /\ UNCHANGED <<fsVars, scanVars, taskVars, pipeVars, streamVars, eventVars,
                   respVars>>

-----------------------------------------------------------------------------
(* utils::json_to_argv *)

\* the argument of json_to_argv: text that is a JSON value, or that is none
UnderscoreVals ==
    { Absent, JArr(<<>>), JArr(<<JStr(S_x)>>),
      JArr(<<JStr(S_a), JNum(1), JStr(S_b)>>), JStr(S_x), JNull }
EVals ==
    { Absent, JStr(S_x), JBool(FALSE), JNum(5), JNull, JArr(<<JStr(S_a)>>) }
SVals == { Absent, JStr(<<>>), JBool(TRUE), JObj([e |-> JNum(1)]) }

ArgvInputs ==
    { JsonText(JObj(Strip(("_" :> u) @@ [e |-> ev, s |-> sv]))) :
        u \in UnderscoreVals, ev \in EVals, sv \in SVals }
    \cup { JsonText(JNull), JsonText(JArr(<<JStr(S_x)>>)), JsonText(JStr(S_x)),
           JsonText(JNum(1)),
           PlainText(<<"{", " ", "i", "n", "v", "a", "l", "i", "d", ":", " ",
                       "j", "s", "o", "n", " ", "}">>),
           PlainText(<<>>) }

Panic(msg) == [panicked |-> TRUE, msg |-> msg, args |-> <<>>]
Returned(args) == [panicked |-> FALSE, msg |-> "", args |-> args]

\* parsed.get("_").and_then(|v| v.as_array()), then the as_str elements
RECURSIVE Strs(_)
Strs(xs) ==
    IF xs = <<>> THEN <<>>
    ELSE (IF Head(xs).t = "str" THEN <<Head(xs).v>> ELSE <<>>) \o Strs(Tail(xs))

Positional(parsed) ==
    LET u == Index(parsed, "_")
    IN  IF u.t = "arr" THEN Strs(u.v) ELSE <<>>

\* the match on the value: a string as it is, everything else as its JSON text
ArgText(value) == IF value.t = "str" THEN value.v ELSE to_string(value)

\* the loop over the object's entries with the flag of "_" kept
RECURSIVE FlagsWithUnderscore(_, _)
FlagsWithUnderscore(f, ks) ==
    IF ks = <<>> THEN <<>>
    ELSE << <<"-", "-">> \o KeyChars(Head(ks)), ArgText(f[Head(ks)]) >>
         \o FlagsWithUnderscore(f, Tail(ks))

\* for (key, value) in parsed.as_object().unwrap(): ks are the keys still
\* to visit, in the map's order
RECURSIVE Flags(_, _)
Flags(f, ks) ==
    IF ks = <<>> THEN <<>>
    ELSE IF Head(ks) = "_" THEN Flags(f, Tail(ks))
    ELSE << <<"-", "-">> \o KeyChars(Head(ks)), ArgText(f[Head(ks)]) >>
         \o Flags(f, Tail(ks))

json_to_argv(json) ==
    IF ~json.json THEN Panic("Invalid JSON")
    ELSE IF json.v.t # "obj"
    THEN Panic("called Option::unwrap() on a None value")
    ELSE Returned(Positional(json.v)
                  \o Flags(json.v.v,
                           SelectSeq(KeyOrder, LAMBDA k : k \in DOMAIN json.v.v)))

JsonToArgv ==
    /\ jin # <<>>
    /\ jout = <<>>
    /\ jout' = json_to_argv(jin)
    /\ UNCHANGED <<lres, lret, jin, call, req, first>>
    /\ UNCHANGED <<fsVars, scanVars, taskVars, pipeVars, streamVars, eventVars,
                   respVars>>

-----------------------------------------------------------------------------
(* Specifications *)

InitScanIdle ==
    /\ spc = "idle" /\ scan_err = NoError /\ pending = {} /\ chan = <<>>
    /\ file_count = 0 /\ project_size = 0 /\ counted = {}

InitStreamIdle ==
    /\ tpc = "idle" /\ tstack = <<>> /\ entries = {} /\ tresult = "none"
    /\ dataLen = 0 /\ nwritten = 0
    /\ buffered = 0 /\ consumed = 0
    /\ is_closed = FALSE /\ write_waker = FALSE
    /\ taskSome = FALSE /\ done = FALSE /\ readerSome = TRUE /\ rcap = 0
    /\ cstate = "idle" /\ yielded = <<>>

InitEventIdle ==
    /\ epc = "idle" /\ record = <<>> /\ raw = <<>> /\ event = <<>>

InitRespIdle ==
    /\ resp = <<>> /\ dpc = "idle" /\ publishErr = <<>> /\ rpos = 0
    /\ in_queue = <<>> /\ out_queue = <<>> /\ items = <<>>

InitSdkIdle == lres = <<>> /\ lret = <<>> /\ jin = <<>> /\ jout = <<>>

InitCallIdle == req = <<>> /\ first = <<>> /\ InitSdkIdle

\* publish: calculate_metadata(project_path), then TarGzStream::new and the
\* request whose body is the stream
Init ==
    /\ InitFs
    /\ spc = "start" /\ scan_err = NoError /\ pending = {} /\ chan = <<>>
    /\ file_count = 0 /\ project_size = 0 /\ counted = {}
    /\ InitStreamIdle
    /\ InitEventIdle
    /\ InitRespIdle
    /\ call = DefaultCall /\ InitCallIdle

ScanNext == ScanStart \/ WalkerVisit \/ Aggregate \/ ScanReturn

TaskNext == TaskWalk \/ TaskFinish \/ TaskWrite \/ TaskShutdown

StreamNext == StreamNew \/ TaskNext \/ PollNext \/ DropStream

Next == ScanNext \/ StreamNext

Spec == Init /\ [][Next]_vars

\* publish on a project without rules
InitPlain == Init /\ tree[<<".surgeignore">>].kind = "none"

PlainSpec == InitPlain /\ [][Next]_vars

\* publish on a small project that has a .surgeignore
InitRules ==
    /\ Init
    /\ tree[<<".surgeignore">>].kind = "file"
    /\ tree[<<"a.txt">>].size <= 2
    /\ tree[<<"b.txt">>].kind = "none"
    /\ tree[<<"link">>].kind = "none"
    /\ tree[<<"sub">>].kind = "none"

RulesSpec == InitRules /\ [][Next]_vars

\* The archive stream on its own, on a project without rules; the runtime
\* runs a runnable task, and the consumer polls when it is runnable.
InitStream ==
    /\ InitFs
    /\ tree[<<".surgeignore">>].kind = "none"
    /\ InitScanIdle
    /\ InitStreamIdle
    /\ InitEventIdle
    /\ InitRespIdle
    /\ call = DefaultCall /\ InitCallIdle

StreamSpec ==
    /\ InitStream
    /\ [][StreamNext]_vars
    /\ WF_vars(StreamNew)
    /\ WF_vars(TaskNext)
    /\ WF_vars(PollNext)

\* publish and publish_wip over every call of the model, on small projects
InitRequest ==
    /\ InitFs
    /\ tree[<<".surgeignore">>].kind = "none"
    /\ tree[<<"link">>].kind = "none"
    /\ tree[<<"sub">>].kind = "none"
    /\ tree[<<"a.txt">>].size <= 2
    /\ tree[<<"b.txt">>].kind = "none" \/ tree[<<"b.txt">>].readable
    /\ spc = "start" /\ scan_err = NoError /\ pending = {} /\ chan = <<>>
    /\ file_count = 0 /\ project_size = 0 /\ counted = {}
    /\ InitStreamIdle
    /\ InitEventIdle
    /\ InitRespIdle
    /\ call \in Calls /\ InitCallIdle

RequestSpec == InitRequest /\ [][Next]_vars

\* calculate_metadata called twice on the same project
RescanNext == ScanNext \/ ScanAgain

InitRescan ==
    /\ Init
    /\ tree[<<"a.txt">>].size <= 2
    /\ tree[<<"link">>].kind = "none"
    /\ tree[<<"b.txt">>].kind = "none" \/ tree[<<"b.txt">>].readable

RescanSpec == InitRescan /\ [][RescanNext]_vars

\* The archive stream with a task that may panic or be cancelled
FaultNext == StreamNext \/ TaskPanic

FaultSpec == InitStream /\ [][FaultNext]_vars

\* The classifier on its own, over every record of the model.
InitEvent ==
    /\ tree = MkTree(0, "none", "none", FALSE, FALSE, <<>>)
    /\ rules = <<>>
    /\ InitScanIdle
    /\ InitStreamIdle
    /\ record \in Records
    /\ epc = "line" /\ raw = <<>> /\ event = <<>>
    /\ InitRespIdle
    /\ call = DefaultCall /\ InitCallIdle

EventNext == Deserialize \/ Classify

EventSpec == InitEvent /\ [][EventNext]_vars

\* publish from the moment the response arrives
InitResponse ==
    /\ tree = MkTree(0, "none", "none", FALSE, FALSE, <<>>)
    /\ rules = <<>>
    /\ InitScanIdle
    /\ InitStreamIdle
    /\ InitEventIdle
    /\ resp \in Responses
    /\ dpc = "sent" /\ publishErr = <<>> /\ rpos = 0
    /\ in_queue = <<>> /\ out_queue = <<>> /\ items = <<>>
    /\ call = DefaultCall /\ InitCallIdle

ResponseNext == CheckStatus \/ PollPop \/ PollChunk \/ PollEnd

ResponseSpec == InitResponse /\ [][ResponseNext]_vars

\* login on its own, over every response of the model
InitLogin ==
    /\ tree = MkTree(0, "none", "none", FALSE, FALSE, <<>>)
    /\ rules = <<>>
    /\ InitScanIdle
    /\ InitStreamIdle
    /\ InitEventIdle
    /\ InitRespIdle
    /\ call = DefaultCall /\ req = <<>> /\ first = <<>>
    /\ lres \in LoginResponses /\ lret = <<>>
    /\ jin = <<>> /\ jout = <<>>

LoginNext == Login

LoginSpec == InitLogin /\ [][LoginNext]_vars

\* json_to_argv on its own, over every argument of the model
InitArgv ==
    /\ tree = MkTree(0, "none", "none", FALSE, FALSE, <<>>)
    /\ rules = <<>>
    /\ InitScanIdle
    /\ InitStreamIdle
    /\ InitEventIdle
    /\ InitRespIdle
    /\ call = DefaultCall /\ req = <<>> /\ first = <<>>
    /\ lres = <<>> /\ lret = <<>>
    /\ jin \in ArgvInputs /\ jout = <<>>

ArgvNext == JsonToArgv

ArgvSpec == InitArgv /\ [][ArgvNext]_vars

\* publish and publish_wip on a path that is a file or does not exist, and
\* on one small project
NotADirectory(node) == [p \in AllPaths |-> IF p = Root THEN node ELSE NoNode]

InitPath ==
    /\ \/ /\ tree = MkTree(2, "ok", "none", FALSE, FALSE, <<>>)
          /\ call = DefaultCall
       \/ /\ tree \in {NotADirectory(NoNode), NotADirectory(FileNode(2, TRUE))}
          /\ call \in Calls
    /\ rules = <<>>
    /\ spc = "start" /\ scan_err = NoError /\ pending = {} /\ chan = <<>>
    /\ file_count = 0 /\ project_size = 0 /\ counted = {}
    /\ InitStreamIdle
    /\ InitEventIdle
    /\ InitRespIdle
    /\ InitCallIdle

PathSpec == InitPath /\ [][Next]_vars

\* publish on the projects whose entries do not change, with at most one
\* rule and small files
InitSelect ==
    /\ Init
    /\ \A p \in AllPaths : tree[p].stat # "flaky"
    /\ Len(rules) <= 1
    /\ tree[<<"a.txt">>].size <= 2

SelectSpec == InitSelect /\ [][Next]_vars

\* The archive stream with a task that may panic and a consumer that polls
\* on after the end
FusedNext == FaultNext \/ PollAfterEnd

FusedSpec == InitStream /\ [][FusedNext]_vars

-----------------------------------------------------------------------------
(* Claims about the archive stream *)

RECURSIVE SumChunks(_)
SumChunks(ys) ==
    IF ys = <<>> THEN 0
    ELSE (IF Head(ys).k = "chunk" THEN Head(ys).n ELSE 0) + SumChunks(Tail(ys))

Kinds(ys) == [i \in 1..Len(ys) |-> ys[i].k]

\* the walk loop returned an error: the task ended before the walk did
ConstructionFailed == tpc = "done" /\ tresult = "err" /\ tstack # <<>>

\* C1: while a consumer is still waiting for the archive (it has neither
\* received end-of-stream nor gone away), the producer or the consumer can
\* take a step: the pair never blocks forever, whatever the archive's size.
C1_NeverBlocksForever ==
    cstate \in {"ready", "parkedTask", "parkedPipe"}
        => ENABLED (TaskNext \/ PollNext)

\* C2: when archive construction fails, the consumer's items are the Err
\* item and nothing after it: end-of-stream is never returned without the
\* error before it, and no chunk or second error follows the error.
C2_ErrorIsLastItem ==
    ConstructionFailed =>
        /\ \A i \in 1..Len(yielded) :
             yielded[i].k = "eos" => \E j \in 1..(i - 1) : yielded[j].k = "err"
        /\ \A i \in 1..Len(yielded) :
             yielded[i].k = "err" =>
                \A j \in (i + 1)..Len(yielded) : yielded[j].k = "eos"
        /\ \A i \in 1..Len(yielded) : yielded[i].k # "chunk"

C2_Witness ==
    /\ ConstructionFailed
    /\ cstate = "finished"
    /\ Kinds(yielded) = <<"err", "eos">>

\* C3: once the consumer has gone away, the archive task terminates.
C3_DroppedTaskTerminates == (cstate = "dropped") ~> (tpc = "done")

\* the task was parked on a full pipe, the stream was dropped, and the task
\* ended with BrokenPipe
C3_Witness ==
    /\ cstate = "dropped"
    /\ tpc = "done" /\ tresult = "err"
    /\ nwritten = PipeCapacity /\ nwritten < dataLen

\* the chunks among the first j items
ChunksBefore(j) == SumChunks(SubSeq(yielded, 1, j - 1))

\* C15: the chunks yielded, in order, are the bytes the task wrote into the
\* pipe: each chunk starts where the one before ended, the bytes yielded and
\* the bytes still in the pipe are the bytes written, and at end-of-stream
\* without an error every byte written has been yielded.
C15_ChunksInProductionOrder ==
    /\ \A j \in 1..Len(yielded) :
         yielded[j].k = "chunk" =>
            (yielded[j].n > 0 /\ yielded[j].from = ChunksBefore(j))
    /\ SumChunks(yielded) + buffered = nwritten
    /\ (cstate = "finished" /\ \A j \in 1..Len(yielded) : yielded[j].k # "err")
         => (SumChunks(yielded) = nwritten /\ nwritten = dataLen)

\* an archive that fills the pipe came out as two chunks and end-of-stream
C15_Witness ==
    /\ cstate = "finished"
    /\ dataLen = PipeCapacity
    /\ yielded = <<ChunkItem(0, ReaderCapacity),
                   ChunkItem(ReaderCapacity, ReaderCapacity), Item("eos", 0)>>

\* C23: when the archive task panics or is cancelled, the items of the stream
\* are one Err item and then end-of-stream, and nothing else.
C23_PanicIsOneErrItem ==
    tresult = "panic" =>
        /\ Kinds(yielded) \in {<<>>, <<"err">>, <<"err", "eos">>}
        /\ cstate = "finished" => Kinds(yielded) = <<"err", "eos">>
        /\ done => Kinds(yielded) # <<>>

\* the task was cancelled while parked on a full pipe
C23_Witness ==
    /\ tresult = "panic"
    /\ nwritten = PipeCapacity /\ nwritten < dataLen
    /\ cstate = "finished"
    /\ Kinds(yielded) = <<"err", "eos">>

\* C21: the archive is streamed incrementally: the bytes of the archive held
\* at any moment, by the producer and in the pipe, are bounded by the pipe's
\* capacity and not by the size of the whole archive.
C21_HeldBytesBounded == TaskData + buffered <= PipeCapacity

\* C22: the pipe never holds more than its capacity, and a writer that is
\* parked on the pipe found it full and has bytes left to write: it waits
\* instead of growing the buffer.
C22_PipeBounded ==
    /\ buffered <= PipeCapacity
    /\ write_waker =>
         (buffered = PipeCapacity /\ tpc = "write" /\ nwritten < dataLen)
    /\ nwritten <= dataLen \/ tpc \in {"idle", "walk"}

\* the task is parked on a full pipe with a byte still to write
C22_Witness ==
    /\ write_waker
    /\ buffered = PipeCapacity
    /\ dataLen = PipeCapacity + 1 /\ nwritten = PipeCapacity

\* a step in which poll_next polls the task's JoinHandle
PollsHandle == (PollNext \/ PollAfterEnd) /\ ~done /\ taskSome

\* C37: after end-of-stream or an Err item every poll yields end-of-stream;
\* the stream yields at most one Err item; the JoinHandle is polled only
\* while the stream holds it, the stream lets go of it in the poll in which
\* it returns its result, and never holds it again.
C37_FusedStream ==
    /\ [][ (yielded # <<>> /\ yielded[Len(yielded)].k \in {"eos", "err"}) =>
              \/ yielded' = yielded
              \/ yielded' = Append(yielded, Item("eos", 0)) ]_vars
    /\ [](Cardinality({ j \in 1..Len(yielded) : yielded[j].k = "err" }) <= 1)
    /\ [][ (PollsHandle /\ JoinPoll # "pending") => ~taskSome' ]_vars
    /\ [][ (~taskSome /\ tpc # "idle") => ~taskSome' ]_vars
    /\ [](done => ~taskSome)

\* the task was cancelled with bytes in the pipe; the consumer got the one
\* Err item and then end-of-stream at each of its three later polls
C37_Witness ==
    /\ tresult = "panic"
    /\ buffered > 0
    /\ Kinds(yielded) = <<"err", "eos", "eos", "eos">>

-----------------------------------------------------------------------------
(* Claims about the metadata scan, the rules and the archive's entries *)

RegularFiles == { p \in AllPaths : tree[p].kind = "file" }

\* the regular files the matcher leaves in
IncludedFiles ==
    { p \in RegularFiles :
        ~is_ignored(tree, build_custom_gitignore(tree, rules), p) }

RECURSIVE TotalSize(_)
TotalSize(P) ==
    IF P = {} THEN 0
    ELSE LET p == CHOOSE x \in P : TRUE
         IN  tree[p].size + TotalSize(P \ {p})

\* the source files of the archive's entries
Archived == { e.src : e \in entries }

ArchiveBuilt == tpc = "done" /\ tresult = "ok"

\* C4: calculate_metadata returns the number N of non-excluded regular files
\* and their total size S, whatever the order in which the workers visited
\* the entries; directories and non-regular entries add nothing.
C4_MetadataIsNAndS ==
    spc = "done" =>
        /\ file_count = Cardinality(IncludedFiles)
        /\ project_size = TotalSize(IncludedFiles)

\* C5: the project {a.txt: 2 bytes, .surgeignore: "b.txt", b.txt: 3 bytes}
\* has file_count 1 and project_size 2, and its archive holds a.txt alone.
ScenarioRules == <<[neg |-> FALSE, dirOnly |-> FALSE, name |-> "b.txt"]>>
ScenarioTree == MkTree(2, "ok", "none", FALSE, TRUE, ScenarioRules)

C5_SurgeignoreScenario ==
    (tree = ScenarioTree /\ rules = ScenarioRules) =>
        /\ spc = "done" => (file_count = 1 /\ project_size = 2)
        /\ ArchiveBuilt => Archived = {<<"a.txt">>}

\* C6: each included regular file has exactly one archive entry, whose path
\* is the file's path below the project's parent directory and whose length
\* is the file's; distinct files have distinct entry paths; no excluded file
\* has an entry.
C6_ArchiveRoundTrip ==
    ArchiveBuilt =>
        /\ \A p \in IncludedFiles :
             Cardinality({ e \in entries :
                 e.path = <<dir_name>> \o p /\ e.size = tree[p].size }) = 1
        /\ \A e1, e2 \in entries : e1.src # e2.src => e1.path # e2.path
        /\ \A p \in RegularFiles \ IncludedFiles : p \notin Archived

\* the rule that decides for one path: the last line that matches it
LastMatch(q) ==
    LET hits == { i \in 1..Len(rules) :
                    /\ q # Root /\ q[Len(q)] = rules[i].name
                    /\ (rules[i].dirOnly => tree[q].kind = "dir") }
    IN  IF hits = {} THEN "None"
        ELSE IF rules[SetMax(hits)].neg THEN "Whitelist" ELSE "Ignore"

SelfAndAncestors(p) == { SubSeq(p, 1, n) : n \in 1..Len(p) }

\* a path is excluded iff it or one of its ancestor directories is matched
\* by the rules
Excluded(p) ==
    /\ tree[<<".surgeignore">>].kind # "none"
    /\ \E q \in SelfAndAncestors(p) : LastMatch(q) = "Ignore"

\* C7: a file that is matched, or lies under a matched directory, is in
\* neither the metadata counts nor the archive; any other file is in both.
C7_ExclusionSemantics ==
    /\ spc = "done" =>
         \A p \in RegularFiles : (p \in counted) <=> ~Excluded(p)
    /\ ArchiveBuilt =>
         \A p \in RegularFiles : (p \in Archived) <=> ~Excluded(p)

\* C33: every entry of the archive records the size, the permission bits
\* and the modification time of the file it was made from, so entries made
\* from files with different permission bits record different modes.
C33_HeaderRecordsFileAttributes ==
    /\ \A e \in entries :
          /\ e.size = metadata_len(tree, e.src)
          /\ e.mode = permissions_mode(tree, e.src)
          /\ e.mtime = modified_secs(tree, e.src)
    /\ \A e1, e2 \in entries :
          permissions_mode(tree, e1.src) # permissions_mode(tree, e2.src)
              => e1.mode # e2.mode

-----------------------------------------------------------------------------
(* Claims about the event classifier *)

RecognisedTags == {T_cert, T_progress, T_info, T_ip, T_subscription}

VariantOf(tag) ==
    CASE tag = T_cert -> "Cert"
      [] tag = T_progress -> "Progress"
      [] tag = T_info -> "Info"
      [] tag = T_ip -> "Ip"
      [] tag = T_subscription -> "Subscription"
      [] OTHER -> "Unknown"

\* C8: every RawEvent is classified, and the Event is the variant its tag
\* names or Unknown; a tag that is not recognised always gives Unknown.
C8_ClassificationTotal ==
    /\ epc = "raw" => ENABLED Classify
    /\ epc = "event" =>
         /\ event.k \in {VariantOf(raw.event_type), "Unknown"}
         /\ raw.event_type \notin RecognisedTags => event.k = "Unknown"

\* a recognised tag over a payload of the wrong shape
C8_Witness ==
    /\ epc = "event"
    /\ raw.event_type = T_ip
    /\ Index(raw.data, "data") = JObj([ip |-> JNum(5)])
    /\ event.k = "Unknown"

IsDigitString(cs) == cs # <<>> /\ \A i \in 1..Len(cs) : cs[i] \in Digits

RECURSIVE DecimalValue(_)
DecimalValue(cs) ==
    IF cs = <<>> THEN 0
    ELSE DecimalValue(SubSeq(cs, 1, Len(cs) - 1)) * 10 + DigitVal(cs[Len(cs)])

\* the number a written value denotes
Denoted(w) == IF w.t = "num" THEN w.v ELSE DecimalValue(w.v)

\* a progress record with id, written, total and an optional end, written
\* being a JSON number or a string of decimal digits
ProgressRecord ==
    /\ "type" \in DOMAIN record /\ record["type"] = JStr(T_progress)
    /\ "id" \in DOMAIN record /\ record["id"].t = "str"
    /\ "total" \in DOMAIN record /\ record["total"].t = "num"
    /\ "end" \in DOMAIN record => record["end"].t = "bool"
    /\ "written" \in DOMAIN record
    /\ \/ record["written"].t = "num"
       \/ record["written"].t = "str" /\ IsDigitString(record["written"].v)

C10_UnknownPreservesInput ==
    (epc = "event" /\ event.k = "Unknown") =>
        /\ event.v.event_type = record["type"].v
        /\ event.v.data.t = "obj"
        /\ DOMAIN event.v.data.v = DOMAIN record \ {"type"}
        /\ \A k \in DOMAIN record \ {"type"} : event.v.data.v[k] = record[k]

\* {"type":"bogus","foo":1}
C10_Witness ==
    /\ epc = "event"
    /\ record = WithType(JStr(T_bogus),
                    [id |-> Absent, written |-> Absent, total |-> Absent,
                     end |-> Absent, foo |-> JNum(1)])
    /\ event = Ev("Unknown", [event_type |-> T_bogus,
                              data |-> JObj([foo |-> JNum(1)])])

-----------------------------------------------------------------------------
(* Claims about the event sequence of publish *)

\* a key or a string of the payload holds the marker
RECURSIVE HasMarker(_)
HasMarker(x) ==
    CASE x.t = "str" -> Contains(x.v, ErrorMarker)
      [] x.t = "arr" -> \E i \in 1..Len(x.v) : HasMarker(x.v[i])
      [] x.t = "obj" ->
            \E k \in DOMAIN x.v :
                Contains(KeyChars(k), ErrorMarker) \/ HasMarker(x.v[k])
      [] OTHER -> FALSE

Decoded(it) == it.kind \in {"Event", "EventError"}

\* C11: a decoded event whose type is "error", or whose payload holds the
\* text "error", is yielded as an Err item wrapping the event, never as Ok.
C11_ErrorEventIsErr ==
    \A j \in 1..Len(items) :
        (/\ Decoded(items[j])
         /\ \/ items[j].ev.event_type = ErrorMarker
            \/ HasMarker(items[j].ev.data))
        => (~items[j].ok /\ items[j].kind = "EventError")

\* an info event whose message mentions errors came out as an Err item
C11_Witness ==
    \E j \in 1..Len(items) :
        /\ items[j].kind = "EventError"
        /\ items[j].ev.event_type = T_info
        /\ ~items[j].ok

LineStart(i) == Len(Body(SubSeq(resp.lines, 1, i - 1)))
LineEnd(i) == Len(Body(SubSeq(resp.lines, 1, i)))

RecordLines == { i \in 1..Len(resp.lines) : resp.lines[i] \in JsonIds }
NonEmptyLines == { i \in 1..Len(resp.lines) : resp.lines[i] # "empty" }

\* where the last chunk that was not UTF-8 ended
LastBadEnd ==
    LET ends == { items[j].at : j \in { x \in 1..Len(items) : items[x].kind = "Io" } }
    IN  IF ends = {} THEN 0 ELSE SetMax(ends)

\* the items yielded for the line that ends at body position q
ItemsAt(q) == { j \in 1..Len(items) : items[j].at = q }

\* C12: a failed item does not harm the rest: once the body has ended, every
\* well-formed record that arrived after the last undecodable chunk has been
\* decoded and delivered, as exactly one item.
C12_FailuresIsolated ==
    dpc = "ended" =>
        \A i \in RecordLines :
            LineStart(i) >= LastBadEnd =>
                /\ Cardinality(ItemsAt(LineEnd(i))) = 1
                /\ \A j \in ItemsAt(LineEnd(i)) :
                     /\ Decoded(items[j])
                     /\ items[j].ev = DeRawEvent(LineRec(resp.lines[i])).val

\* C13: the sequence yields as many items as the body has non-empty lines.
C13_OneItemPerNonEmptyLine ==
    dpc = "ended" => Len(items) = Cardinality(NonEmptyLines)

\* C14: items come in arrival order, one for each record, none twice and
\* none skipped.
C14_ArrivalOrder ==
    /\ \A j, k \in 1..Len(items) : j < k => items[j].at < items[k].at
    /\ dpc = "ended" =>
         \A i \in NonEmptyLines : Cardinality(ItemsAt(LineEnd(i))) = 1

\* C16: on a non-success status publish returns an Api error holding the
\* status code and the body text, and no event sequence.
C16_StatusErrorCarriesBody ==
    dpc = "failed" =>
        /\ publishErr.kind = "Api"
        /\ publishErr.status = resp.status
        /\ \/ \E i \in 1..Len(publishErr.errors) :
                 Contains(publishErr.errors[i], Body(resp.lines))
           \/ publishErr.details = JStr(Body(resp.lines))
        /\ items = <<>>

\* an item without the body position it was decoded at
Unplaced(its) ==
    [i \in 1..Len(its) |->
        [ok |-> its[i].ok, kind |-> its[i].kind, ev |-> its[i].ev]]

\* the items of a body that arrives as one chunk
OneChunkItems(body) ==
    IF body = <<>> THEN <<>>
    ELSE IF ~Utf8Valid(body)
    THEN << MapResult([kind |-> "input", val |-> NoEvent, at |-> Len(body)]) >>
    ELSE LET e == EngineInput([in_queue |-> <<>>, out_queue |-> <<>>], body, 0)
         IN  [i \in 1..Len(e.out_queue) |-> MapResult(e.out_queue[i])]

\* C35: when the event sequence has ended, its items are the items the same
\* body gives when it arrives as one chunk, however the transport cut it.
C35_ChunkingIndependent ==
    dpc = "ended" =>
        Unplaced(items) = Unplaced(OneChunkItems(Body(resp.lines)))

\* the payload holds a field named "error"
HasErrorField(d) == d.t = "obj" /\ "error" \in DOMAIN d.v

\* C38: a decoded event whose type is not "error" and whose payload has no
\* error field is yielded as an Ok item, whatever text its keys and strings
\* hold.
C38_OnlyFailuresAreErrors ==
    \A j \in 1..Len(items) :
        (/\ Decoded(items[j])
         /\ items[j].ev.event_type # ErrorMarker
         /\ ~HasErrorField(items[j].ev.data))
        => (items[j].ok /\ items[j].kind = "Event")

-----------------------------------------------------------------------------
(* Claims about empty projects, unreadable entries and malformed rules *)

EmptyProject == Children(tree, Root) = {}

NoErrItem == \A j \in 1..Len(yielded) : yielded[j].k # "err"

\* C17: on an empty project calculate_metadata returns 0 files and 0 bytes,
\* and the archive stream yields an archive without entries and then
\* end-of-stream, with no Err item.
C17_EmptyProject ==
    EmptyProject =>
        /\ spc # "failed"
        /\ spc = "done" => (file_count = 0 /\ project_size = 0)
        /\ (tpc = "done" /\ tresult = "err") => cstate = "dropped"
        /\ NoErrItem
        /\ cstate = "finished" =>
             /\ entries = {}
             /\ Kinds(yielded) = <<"chunk", "eos">>
             /\ SumChunks(yielded) = dataLen
             /\ dataLen >= GzFrame

C17_Witness ==
    /\ EmptyProject
    /\ spc = "done" /\ file_count = 0 /\ project_size = 0
    /\ cstate = "finished" /\ entries = {}
    /\ Kinds(yielded) = <<"chunk", "eos">>

\* C18: no single entry makes calculate_metadata return an error: the scan
\* of a project without rules never fails, and it counts every file whose
\* metadata can be read.
C18_ScanBestEffort ==
    /\ spc # "failed"
    /\ spc = "done" =>
         \A p \in RegularFiles : tree[p].stat = "ok" => p \in counted

\* C19: when the archive stream ends without an Err item, every
\* non-excluded file of the project has an entry in the archive.
C19_ArchiveStrict ==
    (cstate = "finished" /\ NoErrItem) =>
        \A p \in IncludedFiles : p \in Archived

MalformedLines == { i \in 1..Len(rules) : Malformed(rules[i]) }
HasMalformed ==
    tree[<<".surgeignore">>].kind # "none" /\ MalformedLines # {}
FirstMalformed == rules[CHOOSE i \in MalformedLines :
                            \A j \in MalformedLines : i <= j].name

\* what a malformed line does, but for the kind of the error
MalformedFailsWith(kind) ==
    HasMalformed =>
        /\ spc \in {"start", "failed"}
        /\ spc = "failed" =>
             (scan_err.kind = kind /\ scan_err.glob = FirstMalformed)
        /\ tpc = "idle" /\ cstate = "idle" /\ dpc = "idle"

\* C20, as stated: a malformed line fails calculate_metadata and publish
\* with a Configuration error naming the line; no matcher is used and no
\* request is sent.
C20_MalformedIsConfigError == MalformedFailsWith("Config")

\* C20, amended: the error is the ignore-rule error (SurgeError::IgnoreError).
C20_MalformedIsIgnoreError == MalformedFailsWith("Ignore")

\* the second line is the first malformed one, and it is the one named
C20_Witness ==
    /\ Len(rules) = 2 /\ MalformedLines = {2}
    /\ spc = "failed"
    /\ scan_err = [kind |-> "Ignore", glob |-> rules[2].name]

-----------------------------------------------------------------------------
(* Claims about the request of publish and publish_wip *)

\* HeaderMap::get: the first value under the name
Header(r, name) ==
    LET at == { i \in 1..Len(r.headers) : r.headers[i][1] = name }
    IN  r.headers[CHOOSE i \in at : \A j \in at : i <= j][2]

HasHeader(r, name) == \E i \in 1..Len(r.headers) : r.headers[i][1] = name

\* C24: a request exists only once the scan has returned Ok, its file-count
\* and project-size headers are the decimal texts of the counts the scan
\* returned, and a failed scan leaves no request and no archive stream.
C24_ScanBeforeRequest ==
    /\ spc \in {"start", "walk", "aggregate", "failed"} =>
          (req = <<>> /\ tpc = "idle")
    /\ req # <<>> =>
          /\ spc = "done"
          /\ HasHeader(req, "file-count") /\ HasHeader(req, "project-size")
          /\ IsDigitString(Header(req, "file-count"))
          /\ IsDigitString(Header(req, "project-size"))
          /\ DecimalValue(Header(req, "file-count")) = file_count
          /\ DecimalValue(Header(req, "project-size")) = project_size

\* two files of 2 and 3 bytes: the headers are "2" and "5"
C24_Witness ==
    /\ req # <<>>
    /\ file_count = 2 /\ project_size = 5
    /\ Header(req, "file-count") = <<"2">>
    /\ Header(req, "project-size") = <<"5">>

\* the flags at the end of the argv header
FlagText(b) ==
    LET t == IF b THEN S_true ELSE S_false
    IN  <<"\"", "s", "\"", ":">> \o t
        \o <<",", "\"", "s", "t", "a", "g", "e", "\"", ":">> \o t \o <<"}">>

StagingOf(r) ==
    [url |-> r.url, stage |-> Header(r, "stage"),
     flags |-> CHOOSE b \in BOOLEAN : Contains(Header(r, "argv"), FlagText(b))]

NotStaging(r) ==
    [method |-> r.method, body |-> r.body,
     headers |-> SelectSeq(r.headers, LAMBDA h : h[1] \notin {"stage", "argv"}),
     argv |-> LET a == Header(r, "argv")
              IN  SubSeq(a, 1, Len(a) - Len(FlagText(StagingOf(r).flags)))]

\* C28: publish_wip sends to <clock in ms>-<domain> with the stage header
\* "true" and the argv flags s and stage true; publish sends to the domain
\* with "false" and false; the rest of the request is what the other
\* operation builds from the same arguments.
C28_WipDiffersInDomainAndStage ==
    req # <<>> =>
        LET md == [file_count |-> file_count, project_size |-> project_size]
            other == IF call.wip THEN publish(call, md)
                     ELSE publish_wip(call, md)
        IN  /\ StagingOf(req) =
                 IF call.wip
                 THEN [url |-> Endpoint \o NumChars(call.clock.now) \o <<"-">>
                                 \o call.domain,
                       stage |-> S_true, flags |-> TRUE]
                 ELSE [url |-> Endpoint \o call.domain,
                       stage |-> S_false, flags |-> FALSE]
            /\ NotStaging(req) = NotStaging(other)

C28_Witness ==
    /\ req # <<>> /\ call.wip /\ call.clock.now = MaxClock
    /\ call.domain = <<"a", ".", "b">>
    /\ req.url = Endpoint \o <<"1", "2", "-", "a", ".", "b">>
    /\ Header(req, "stage") = S_true

UserPassText(r) == Header(r, "authorization").basic

\* C29, as stated: a token is sent as the username, with an empty or
\* placeholder password; a username and password are sent unchanged.
C29_TokenAsUsername ==
    req # <<>> =>
        IF call.auth.kind = "Token"
        THEN SubSeq(UserPassText(req), 1, Len(call.auth.token) + 1)
               = call.auth.token \o <<":">>
        ELSE UserPassText(req)
               = call.auth.username \o <<":">> \o call.auth.password

\* C29, amended: a token is sent as the password of the username "token".
C29_TokenAsPassword ==
    req # <<>> =>
        /\ HasHeader(req, "authorization")
        /\ IF call.auth.kind = "Token"
           THEN UserPassText(req) = S_token \o <<":">> \o call.auth.token
           ELSE UserPassText(req)
                  = call.auth.username \o <<":">> \o call.auth.password

C29_Witness ==
    /\ req # <<>>
    /\ call.auth = Token(S_x)
    /\ UserPassText(req) = <<"t", "o", "k", "e", "n", ":", "x">>

\* no entry of the tree changes between two stats of it
Unmodified == \A p \in AllPaths : tree[p].stat # "flaky"

\* C25: on an unmodified tree a second calculate_metadata returns what the
\* first returned, whatever the order the workers visited the entries in.
C25_Idempotent ==
    (Unmodified /\ first # <<>> /\ spc \in {"done", "failed"}) =>
        /\ first.ok = (spc = "done")
        /\ first.file_count = file_count
        /\ first.project_size = project_size

C25_Witness ==
    /\ Unmodified /\ first # <<>> /\ spc = "done"
    /\ first.ok /\ first.file_count = 3 /\ file_count = 3

\* C34: when the project path is not a directory, the call does nothing but
\* fail: the scan never starts its walk, its error is the Io NotFound error
\* "Invalid project directory", no archive task exists and no request is
\* made.
C34_NotADirectoryFailsFirst ==
    ~is_dir(tree, Root) =>
        /\ spc \in {"start", "failed"}
        /\ spc = "failed" =>
              /\ scan_err.kind = "Io"
              /\ scan_err = InvalidProjectDirectory
        /\ pending = {} /\ chan = <<>> /\ counted = {}
        /\ tpc = "idle" /\ ~taskSome /\ entries = {}
        /\ req = <<>>

\* publish_wip on a path that is a regular file has failed
C34_Witness ==
    /\ tree[Root].kind = "file"
    /\ call.wip
    /\ spc = "failed"
    /\ scan_err.io = "NotFound"

RECURSIVE SumEntrySizes(_)
SumEntrySizes(E) ==
    IF E = {} THEN 0
    ELSE LET e == CHOOSE x \in E : TRUE
         IN  e.size + SumEntrySizes(E \ {e})

\* C36: on an unmodified tree, once the request is sent and the archive is
\* built, the files the scan counted are the files the archive holds, the
\* file-count header is the number of the archive's entries and the
\* project-size header is the sum of their lengths.
C36_SameSelection ==
    (Unmodified /\ req # <<>> /\ ArchiveBuilt) =>
        /\ counted = Archived
        /\ DecimalValue(Header(req, "file-count")) = Cardinality(entries)
        /\ DecimalValue(Header(req, "project-size")) = SumEntrySizes(entries)

\* a project with a.txt, a link to it, sub/a.txt and a b.txt that the rule
\* "b.txt" excludes: with .surgeignore itself four files are counted and
\* four entries archived
C36_Witness ==
    /\ Unmodified /\ req # <<>> /\ ArchiveBuilt
    /\ tree[<<"b.txt">>].kind = "file" /\ <<"b.txt">> \notin Archived
    /\ <<"link">> \in Archived /\ <<"sub", "a.txt">> \in Archived
    /\ Header(req, "file-count") = <<"4">>
    /\ Cardinality(entries) = 4

-----------------------------------------------------------------------------
(* Claims about the ip and subscription events *)

\* the data field of the classified record (Null when it has none)
DataField == Index(raw.data, "data")

\* C26: a record of type "subscription" is classified as Subscription,
\* whatever its payload, and never as Unknown.
C26_SubscriptionNeverUnknown ==
    (epc = "event" /\ raw.event_type = T_subscription) =>
        event.k = "Subscription"

\* the data field is an object with a string under ip
IpShaped(d) == d.t = "obj" /\ "ip" \in DOMAIN d.v /\ d.v["ip"].t = "str"

\* C27: a record of type "ip" whose payload is {ip: <string>} is classified
\* as Ip with that address, and one with a payload of any other shape as
\* Unknown.
C27_IpOrUnknown ==
    (epc = "event" /\ raw.event_type = T_ip) =>
        IF IpShaped(DataField)
        THEN event = Ev("Ip", [ip |-> DataField.v["ip"].v])
        ELSE event.k = "Unknown"

-----------------------------------------------------------------------------
(* Claims about login *)

\* the strings of a vector of JSON strings
Strings(xs) == [i \in 1..Len(xs) |-> xs[i].v]

\* C31: when login has returned on a response whose status is not a success
\* and whose body was read, what it returned is not a LoginResponse: it is
\* the Api error with the body's status, its errors joined by "; " and its
\* details when the body is an API error response, and otherwise the Http
\* error with the response's status and the body text. A LoginResponse is
\* returned only on a success status.
C31_LoginFailsOnFailureStatus ==
    lret # <<>> =>
        /\ lret.kind = "Ok" => lres.sent /\ is_success(lres.status)
        /\ (lres.sent /\ ~is_success(lres.status) /\ lres.body # NoText) =>
              IF lres.body.json /\ Conforms("ApiErrorResponse", lres.body.v)
              THEN LET b == lres.body.v
                       st == IF b.t = "obj"
                             THEN IF "status" \in DOMAIN b.v
                                  THEN b.v["status"] ELSE JNull
                             ELSE b.v[3]
                       er == IF b.t = "obj" THEN b.v["errors"] ELSE b.v[1]
                       de == IF b.t = "obj" THEN b.v["details"] ELSE b.v[2]
                   IN  /\ lret.kind = "Api"
                       /\ lret.status.some = (st.t = "num")
                       /\ st.t = "num" => lret.status.v = st.v
                       /\ lret.message = Join(Strings(er.v), <<";", " ">>)
                       /\ lret.details = de
              ELSE lret = [kind |-> "Http", status |-> lres.status,
                           body |-> lres.body]

\* a 404 whose body is an API error response with two messages and a status
\* of its own
C31_Witness ==
    /\ lret # <<>>
    /\ lres.sent /\ lres.status = 404
    /\ lret.kind = "Api"
    /\ lret.status.some /\ lret.status.v = 4
    /\ lret.message = <<"a", ";", " ", "b">>

-----------------------------------------------------------------------------
(* Claims about json_to_argv *)

\* the keys of an object other than "_", in the map's order
OtherKeys(f) == SelectSeq(KeyOrder, LAMBDA k : k \in DOMAIN f /\ k # "_")

\* the string elements of the "_" array of an object, in order
UnderscoreStrings(f) ==
    IF "_" \in DOMAIN f /\ f["_"].t = "arr"
    THEN LET xs == f["_"].v
             strs == SelectSeq(xs, LAMBDA x : x.t = "str")
         IN  [i \in 1..Len(strs) |-> strs[i].v]
    ELSE <<>>

\* C32: on a JSON object json_to_argv returns the string elements of "_" in
\* order, then for the j-th other key the two arguments "--<key>" and the
\* value as text, a string without its quotes; nothing else is returned, so
\* there is no "--_"; on text that is not JSON it panics with "Invalid JSON".
C32_JsonToArgv ==
    jout # <<>> =>
        /\ ~jin.json => jout.panicked /\ jout.msg = "Invalid JSON"
        /\ (jin.json /\ jin.v.t = "obj") =>
              LET f == jin.v.v
                  P == UnderscoreStrings(f)
                  ks == OtherKeys(f)
                  a == jout.args
              IN  /\ ~jout.panicked
                  /\ Len(a) = Len(P) + 2 * Len(ks)
                  /\ SubSeq(a, 1, Len(P)) = P
                  /\ \A j \in 1..Len(ks) :
                        /\ a[Len(P) + 2 * j - 1] = <<"-", "-">> \o KeyChars(ks[j])
                        /\ a[Len(P) + 2 * j] =
                              IF f[ks[j]].t = "str" THEN f[ks[j]].v
                              ELSE to_string(f[ks[j]])

\* {"_":["a",1,"b"],"e":false,"s":""} gives a b --e false --s and the
\* empty string
C32_Witness ==
    /\ jout # <<>>
    /\ jin.json /\ jin.v.t = "obj"
    /\ DOMAIN jin.v.v = {"_", "e", "s"}
    /\ jout.args = << S_a, S_b, <<"-", "-", "e">>, S_false, <<"-", "-", "s">>,
                      <<>> >>

====
